---- MODULE Spec2Model ----
(***************************************************************************)
(* A model of the ntgrrc library (package netgear): the token managers,    *)
(* the session client (construction, login, logout, authenticated          *)
(* requests) and the POE / port managers built on it.                      *)
(*                                                                         *)
(* Go strings are modelled as sequences of one-character strings, so that  *)
(* formatting and parsing ("model:token", "SID=...;Path=/") are computed   *)
(* the way the code computes them.                                         *)
(***************************************************************************)
EXTENDS Integers, Sequences, FiniteSets, TLC

VARIABLES
    mgr,        \* which TokenManager the program uses: "memory" or "file"
    tokens,     \* MemoryTokenManager.tokens : address -> tokenData (a Go map)
    files,      \* the token directory of FileTokenManager : filename -> content
    client,     \* the *Client under observation, or NoClient
    sent,       \* the HTTP requests the last operation handed to the transport
    last,       \* what the last operation was, its inputs and what it returned
    oplog,      \* the TokenManager calls made so far (newest last)
    threads     \* the goroutines inside a call: where each one is and what it holds

vars == <<mgr, tokens, files, client, sent, last, oplog, threads>>

\* a program with one goroutine, which is inside no call between two steps
NoThreads == <<>>

-----------------------------------------------------------------------------
(* Strings                                                                 *)

EmptyStr == <<>>

\* strings.HasPrefix
HasPrefix(s, p) ==
    /\ Len(p) <= Len(s)
    /\ SubSeq(s, 1, Len(p)) = p

\* strings.Contains
Contains(s, sub) ==
    \E i \in 0..(Len(s) - Len(sub)) : SubSeq(s, i + 1, i + Len(sub)) = sub

\* strings.Index for a one-character separator: the 0-based position of the
\* first occurrence, -1 when there is none
Index(s, c) ==
    IF \E i \in 1..Len(s) : s[i] = c
    THEN (CHOOSE i \in 1..Len(s) : s[i] = c /\ \A j \in 1..(i - 1) : s[j] # c) - 1
    ELSE -1

\* unicode.IsSpace restricted to the characters of the model
IsSpace(c) == c \in {" ", "\n", "\t"}

RECURSIVE TrimLeft(_)
TrimLeft(s) ==
    IF s # <<>> /\ IsSpace(Head(s)) THEN TrimLeft(Tail(s)) ELSE s

RECURSIVE TrimRight(_)
TrimRight(s) ==
    IF s # <<>> /\ IsSpace(s[Len(s)]) THEN TrimRight(SubSeq(s, 1, Len(s) - 1)) ELSE s

\* strings.TrimSpace
TrimSpace(s) == TrimRight(TrimLeft(s))

\* strings.SplitN(s, ":", 2): at most two parts, cut at the first separator
SplitN2(s, c) ==
    IF Index(s, c) = -1
    THEN <<s>>
    ELSE <<SubSeq(s, 1, Index(s, c)), SubSeq(s, Index(s, c) + 2, Len(s))>>

-----------------------------------------------------------------------------
(* Models                                                                  *)

ModelGS305EP  == <<"G", "S", "3", "0", "5", "E", "P">>
ModelGS305EPP == <<"G", "S", "3", "0", "5", "E", "P", "P">>
ModelGS308EP  == <<"G", "S", "3", "0", "8", "E", "P">>
ModelGS308EPP == <<"G", "S", "3", "0", "8", "E", "P", "P">>
ModelGS316EP  == <<"G", "S", "3", "1", "6", "E", "P">>
ModelGS316EPP == <<"G", "S", "3", "1", "6", "E", "P", "P">>
ModelGS30xEPx == <<"G", "S", "3", "0", "x", "E", "P", "x">>

IsModel30x(m) ==
    m \in {ModelGS305EP, ModelGS305EPP, ModelGS308EP, ModelGS308EPP, ModelGS30xEPx}

IsModel316(m) == m \in {ModelGS316EP, ModelGS316EPP}

IsSupported(m) ==
    m \in {ModelGS305EP, ModelGS305EPP, ModelGS308EP, ModelGS308EPP,
           ModelGS316EP, ModelGS316EPP, ModelGS30xEPx}

AuthTypeSession == "session"
AuthTypeGambit  == "gambit"

\* a GetAuthenticationType that knows the session type only
GetAuthenticationType_AlwaysSession(model) == AuthTypeSession

GetAuthenticationType(model) ==
    IF IsModel316(model) THEN AuthTypeGambit ELSE AuthTypeSession

-----------------------------------------------------------------------------
(* Errors                                                                  *)

\* A Go error value is modelled as its chain: the error itself first, then
\* the cause it wraps, and so on; nil is the empty chain.
NoError == <<>>

\* an error of another package (fmt.Errorf, net/http, os)
GoError(message, cause) == <<[type |-> "go", msg |-> message]>> \o cause

NewError(errorType, message, cause) == <<[type |-> errorType, msg |-> message]>> \o cause
NewAuthError(message, cause)      == NewError("authentication", message, cause)
NewNetworkError(message, cause)   == NewError("network", message, cause)
NewModelError(message, cause)     == NewError("model", message, cause)
NewOperationError(message, cause) == NewError("operation", message, cause)

ErrNotAuthenticated   == NewError("authentication", "not authenticated", NoError)
ErrModelNotDetected   == NewError("model", "could not detect switch model", NoError)
ErrInvalidCredentials == NewError("authentication", "invalid credentials", NoError)

-----------------------------------------------------------------------------
(* package internal: what the client reads out of a device response        *)

\* A response the transport returns.  ok: the request got a response (not a
\* connection error, timeout or cancelled context); readable: io.ReadAll of
\* the body succeeds; cookie: the Set-Cookie header; text: the body;
\* hasRand / rand: the value attribute of the element with id "rand".
Response(ok, readable, cookie, hasRand, rand, text) ==
    [ok |-> ok, readable |-> readable, cookie |-> cookie,
     hasRand |-> hasRand, rand |-> rand, text |-> text]

\* the index of the first character of s at or after i that is not in set,
\* Len(s) + 1 when there is none
SkipWhile(s, i, set) ==
    IF \E k \in i..Len(s) : s[k] \notin set
    THEN CHOOSE k \in i..Len(s) : s[k] \notin set /\ \A j \in i..(k - 1) : s[j] \in set
    ELSE Len(s) + 1

\* the index of the first occurrence of character c at or after i, 0 if none
FindFrom(s, i, c) ==
    IF \E k \in i..Len(s) : s[k] = c
    THEN CHOOSE k \in i..Len(s) : s[k] = c /\ \A j \in i..(k - 1) : s[j] # c
    ELSE 0

\* the smallest element of a non-empty set of numbers
Least(S) == CHOOSE x \in S : \A y \in S : x <= y

QuoteOrSpace == {"\"", " ", "\n", "\t"}
HexDigits == {"0", "1", "2", "3", "4", "5", "6", "7", "8", "9",
              "a", "b", "c", "d", "e", "f", "A", "B", "C", "D", "E", "F"}
Digits == {"0", "1", "2", "3", "4", "5", "6", "7", "8", "9"}

\* the capture of the regular expression  name["\s]*[:=]["\s]*([class]+)
\* matched at position p of s, <<>> when it does not match there
KeyValueAt(s, p, name, class) ==
    LET q == SkipWhile(s, p + Len(name), QuoteOrSpace)
        r == SkipWhile(s, q + 1, QuoteOrSpace)
        e == SkipWhile(s, r, class)
    IN  IF /\ p + Len(name) - 1 <= Len(s)
           /\ SubSeq(s, p, p + Len(name) - 1) = name
           /\ q <= Len(s) /\ s[q] \in {":", "="}
           /\ e > r
        THEN SubSeq(s, r, e - 1)
        ELSE <<>>

\* regexp.FindStringSubmatch for that expression: the leftmost match
KeyValue(s, name, class) ==
    LET at == {p \in 1..Len(s) : KeyValueAt(s, p, name, class) # <<>>}
    IN  IF at = {} THEN <<>> ELSE KeyValueAt(s, Least(at), name, class)

\* ExtractGambitToken: the patterns are tried in order
ExtractGambitToken(content) ==
    IF KeyValue(content, <<"G", "a", "m", "b", "i", "t">>, HexDigits) # <<>>
    THEN KeyValue(content, <<"G", "a", "m", "b", "i", "t">>, HexDigits)
    ELSE IF KeyValue(content, <<"g", "a", "m", "b", "i", "t">>, HexDigits) # <<>>
    THEN KeyValue(content, <<"g", "a", "m", "b", "i", "t">>, HexDigits)
    ELSE KeyValue(content, <<"r", "a", "n", "d">>, Digits)

\* the capture of  error["\s]*[:=]["\s]*"([^"]+)"  matched at position p:
\* the opening quote is the last quote of the run after the separator that a
\* non-empty quote-free text and a closing quote follow
ErrorAssignAt(s, p) ==
    LET name == <<"e", "r", "r", "o", "r">>
        q    == SkipWhile(s, p + Len(name), QuoteOrSpace)
        r    == SkipWhile(s, q + 1, QuoteOrSpace)
        open == {k \in (q + 1)..(r - 1) :
                    /\ s[k] = "\""
                    /\ FindFrom(s, k + 1, "\"") > k + 1}
        k    == CHOOSE x \in open : \A y \in open : y <= x
    IN  IF /\ p + Len(name) - 1 <= Len(s)
           /\ SubSeq(s, p, p + Len(name) - 1) = name
           /\ q <= Len(s) /\ s[q] \in {":", "="}
           /\ open # {}
        THEN SubSeq(s, k + 1, FindFrom(s, k + 1, "\"") - 1)
        ELSE <<>>

\* the capture of  <div[^>]*error[^>]*>([^<]+)</div>  matched at position p
ErrorDivAt(s, p) ==
    LET g == FindFrom(s, p + 4, ">")
        h == FindFrom(s, g + 1, "<")
    IN  IF /\ p + 3 <= Len(s)
           /\ SubSeq(s, p, p + 3) = <<"<", "d", "i", "v">>
           /\ g > 0
           /\ Contains(SubSeq(s, p + 4, g - 1), <<"e", "r", "r", "o", "r">>)
           /\ h > g + 1
           /\ h + 5 <= Len(s)
           /\ SubSeq(s, h, h + 5) = <<"<", "/", "d", "i", "v", ">">>
        THEN SubSeq(s, g + 1, h - 1)
        ELSE <<>>

\* the capture of  alert\s*\(\s*"([^"]+)"\s*\)  matched at position p
ErrorAlertAt(s, p) ==
    LET a == SkipWhile(s, p + 5, {" ", "\n", "\t"})
        b == SkipWhile(s, a + 1, {" ", "\n", "\t"})
        c == FindFrom(s, b + 1, "\"")
        d == SkipWhile(s, c + 1, {" ", "\n", "\t"})
    IN  IF /\ p + 4 <= Len(s)
           /\ SubSeq(s, p, p + 4) = <<"a", "l", "e", "r", "t">>
           /\ a <= Len(s) /\ s[a] = "("
           /\ b <= Len(s) /\ s[b] = "\""
           /\ c > b + 1
           /\ d <= Len(s) /\ s[d] = ")"
        THEN SubSeq(s, b + 1, c - 1)
        ELSE <<>>

\* ExtractErrorMessage: the patterns are tried in order, each for its
\* leftmost match; the capture is trimmed
ExtractErrorMessage(content) ==
    LET assign == {p \in 1..Len(content) : ErrorAssignAt(content, p) # <<>>}
        div    == {p \in 1..Len(content) : ErrorDivAt(content, p) # <<>>}
        alert  == {p \in 1..Len(content) : ErrorAlertAt(content, p) # <<>>}
    IN  IF assign # {} THEN TrimSpace(ErrorAssignAt(content, Least(assign)))
        ELSE IF div # {} THEN TrimSpace(ErrorDivAt(content, Least(div)))
        ELSE IF alert # {} THEN TrimSpace(ErrorAlertAt(content, Least(alert)))
        ELSE <<>>

\* ExtractSeedValue: doc.Find("#rand").First().Attr("value")
ExtractSeedValue(resp) == IF resp.hasRand THEN resp.rand ELSE EmptyStr

\* the DetectFromHTML of the earlier revision: GS316EPP, GS316EP, then
\* GS305EP, GS305EPP, GS308EP, GS308EPP
DetectFromHTML_Earlier(htmlContent) ==
    LET models == <<ModelGS316EPP, ModelGS316EP, ModelGS305EP, ModelGS305EPP,
                    ModelGS308EP, ModelGS308EPP>>
        found == {i \in 1..Len(models) : Contains(htmlContent, models[i])}
    IN  IF found # {} THEN models[Least(found)]
        ELSE IF \/ Contains(htmlContent, <<"R", "e", "d", "i", "r", "e", "c", "t", " ", "t", "o", " ", "L", "o", "g", "i", "n">>)
                \/ Contains(htmlContent, <<"r", "e", "d", "i", "r", "e", "c", "t">>)
        THEN ModelGS30xEPx
        ELSE EmptyStr

\* ModelDetector.DetectFromHTML
DetectFromHTML(htmlContent) ==
    LET specificModels == <<ModelGS316EPP, ModelGS308EPP, ModelGS305EPP,
                            ModelGS316EP, ModelGS308EP, ModelGS305EP>>
        found == {i \in 1..Len(specificModels) : Contains(htmlContent, specificModels[i])}
    IN  IF found # {} THEN specificModels[Least(found)]
        ELSE IF \/ Contains(htmlContent, <<"R", "e", "d", "i", "r", "e", "c", "t", " ", "t", "o", " ", "L", "o", "g", "i", "n">>)
                \/ Contains(htmlContent, <<"r", "e", "d", "i", "r", "e", "c", "t">>)
        THEN ModelGS30xEPx
        ELSE EmptyStr

\* specialMerge: the characters of the two strings taken in turn
RECURSIVE specialMerge(_, _)
specialMerge(password, seedValue) ==
    IF password = <<>> THEN seedValue
    ELSE IF seedValue = <<>> THEN password
    ELSE <<Head(password), Head(seedValue)>> \o specialMerge(Tail(password), Tail(seedValue))

\* EncryptPasswordWithSeed: the hex MD5 digest of the merged string, kept
\* as the digest's argument (the digest is taken to be collision-free)
EncryptPasswordWithSeed(password, seedValue) ==
    <<"md5(">> \o specialMerge(password, seedValue) \o <<")">>

\* Client.extractSessionToken: the value of the SID cookie up to the first ";"
extractSessionToken(resp) ==
    LET prefix == <<"S", "I", "D", "=">>
        sidVal == SubSeq(resp.cookie, Len(prefix) + 1, Len(resp.cookie))
    IN  IF HasPrefix(resp.cookie, prefix)
        THEN IF Index(sidVal, ";") # -1
             THEN SubSeq(sidVal, 1, Index(sidVal, ";"))
             ELSE sidVal
        ELSE EmptyStr

-----------------------------------------------------------------------------
(* FileTokenManager.getTokenFilename: FNV-1a, 32 bits.  A 32-bit value is  *)
(* kept as two 16-bit halves <<hi, lo>> so that no intermediate product    *)
(* leaves the range of the checker's integers.                             *)

Ord(c) ==
    CASE c = "." -> 46
      [] c = "0" -> 48 [] c = "1" -> 49 [] c = "2" -> 50 [] c = "3" -> 51
      [] c = "4" -> 52 [] c = "5" -> 53 [] c = "6" -> 54 [] c = "7" -> 55
      [] c = "8" -> 56 [] c = "9" -> 57
      [] c = "a" -> 97 [] c = "b" -> 98 [] c = "c" -> 99 [] c = "h" -> 104
      [] c = "e" -> 101 [] c = "g" -> 103 [] c = "i" -> 105 [] c = "k" -> 107
      [] c = "l" -> 108 [] c = "n" -> 110 [] c = "r" -> 114 [] c = "t" -> 116
      [] c = "z" -> 122

RECURSIVE Xor(_, _)
Xor(a, b) ==
    IF a = 0 THEN b
    ELSE IF b = 0 THEN a
    ELSE (((a % 2) + (b % 2)) % 2) + 2 * Xor(a \div 2, b \div 2)

FnvOffsetHi == 33052
FnvOffsetLo == 40389
FnvPrimeLow == 403

\* one round: hash ^= byte; hash *= 16777619 (= 2^24 + 403), modulo 2^32
FnvStep(h, byte) ==
    LET lo == Xor(h[2], byte)
        hi == h[1]
        p  == lo * FnvPrimeLow
    IN  << ((hi * FnvPrimeLow) + (p \div 65536) + ((lo % 256) * 256)) % 65536,
           p % 65536 >>

RECURSIVE FnvSum(_, _)
FnvSum(h, s) ==
    IF s = <<>> THEN h ELSE FnvSum(FnvStep(h, Ord(Head(s))), Tail(s))

\* hash/fnv New32a, Write, Sum32
Fnv32a(s) == FnvSum(<<FnvOffsetHi, FnvOffsetLo>>, s)

\* switch addresses
Addresses == {<<"a">>, <<"b">>}

\* two host names whose FNV-1a hashes are equal, and one that has its own
AddressZinke == <<"z", "i", "n", "k", "e">>
AddressAltarage == <<"a", "l", "t", "a", "r", "a", "g", "e">>
FileAddresses == {AddressZinke, AddressAltarage, <<"a">>}

\* the hashes of the addresses of the model, computed once
FilenameCache == [a \in Addresses \cup FileAddresses |-> Fnv32a(a)]

\* the file name "token-<hash>", identified by the hash
getTokenFilename(address) ==
    IF address \in DOMAIN FilenameCache THEN FilenameCache[address] ELSE Fnv32a(address)

-----------------------------------------------------------------------------
(* Go maps: a function whose domain is the set of keys present             *)

EmptyMap == [k \in {} |-> k]

MapSet(m, key, val) == [k \in (DOMAIN m) \cup {key} |-> IF k = key THEN val ELSE m[k]]

MapDelete(m, key) == [k \in (DOMAIN m) \ {key} |-> m[k]]

-----------------------------------------------------------------------------
(* MemoryTokenManager                                                      *)

\* what GetToken returns: (token, model, err)
GetResult(token, model, err) == [token |-> token, model |-> model, err |-> err]

MemoryGetToken(m, address) ==
    IF address \in DOMAIN m
    THEN GetResult(m[address].token, m[address].model, NoError)
    ELSE GetResult(EmptyStr, EmptyStr, NewAuthError("token not found", NoError))

\* the map after StoreToken; the call always returns nil
MemoryStoreToken(m, address, token, model) ==
    MapSet(m, address, [token |-> token, model |-> model])

\* a DeleteToken that forgets to remove the key
MemoryDeleteToken_Keeps(m, address) == m

\* the map after DeleteToken; the call always returns nil
MemoryDeleteToken(m, address) == MapDelete(m, address)

-----------------------------------------------------------------------------
(* FileTokenManager.  `fs` is the token directory: file name -> content.   *)
(* The outcome of each system call is an input: "ok", or the way it fails. *)

\* os.ReadFile succeeds, or fails because the file is missing or unreadable
ReadOutcomes == {"ok", "eacces"}

\* os.MkdirAll fails ("mkdir"); os.WriteFile fails to open the file ("open")
\* or fails after O_TRUNC with only `written` bytes on disk ("write")
StoreOutcomes == {"ok", "mkdir", "open", "write"}

\* os.Remove succeeds or reports ENOENT ("ok"), or fails otherwise
RemoveOutcomes == {"ok", "eacces"}

\* a GetToken without the test for the empty file
FileGetToken_NoEmptyTest(fs, address, outcome) ==
    LET tokenFile == getTokenFilename(address)
        content   == fs[tokenFile]
        parts     == SplitN2(content, ":")
        modelStr  == TrimSpace(parts[1])
        token     == TrimSpace(parts[2])
    IN  IF tokenFile \notin DOMAIN fs \/ outcome # "ok"
        THEN GetResult(EmptyStr, EmptyStr,
                 NewAuthError("failed to read token file", GoError("os.ReadFile", NoError)))
        ELSE IF ~Contains(content, <<":">>)
        THEN GetResult(EmptyStr, EmptyStr, NewAuthError("malformed token file", NoError))
        ELSE IF ~IsSupported(modelStr)
        THEN GetResult(EmptyStr, EmptyStr, NewModelError("unknown model in token file", NoError))
        ELSE GetResult(token, modelStr, NoError)

\* a GetToken that accepts any model
FileGetToken_AnyModel(fs, address, outcome) ==
    LET tokenFile == getTokenFilename(address)
        content   == fs[tokenFile]
        parts     == SplitN2(content, ":")
        modelStr  == TrimSpace(parts[1])
        token     == TrimSpace(parts[2])
    IN  IF tokenFile \notin DOMAIN fs \/ outcome # "ok"
        THEN GetResult(EmptyStr, EmptyStr,
                 NewAuthError("failed to read token file", GoError("os.ReadFile", NoError)))
        ELSE IF content = EmptyStr
        THEN GetResult(EmptyStr, EmptyStr,
                 NewAuthError("token file is empty, please upgrade your token file", NoError))
        ELSE IF ~Contains(content, <<":">>)
        THEN GetResult(EmptyStr, EmptyStr, NewAuthError("malformed token file", NoError))
        ELSE GetResult(token, modelStr, NoError)

FileGetToken(fs, address, outcome) ==
    LET tokenFile == getTokenFilename(address)
        content   == fs[tokenFile]
        parts     == SplitN2(content, ":")
        modelStr  == TrimSpace(parts[1])
        token     == TrimSpace(parts[2])
    IN  IF tokenFile \notin DOMAIN fs \/ outcome # "ok"
        THEN GetResult(EmptyStr, EmptyStr,
                 NewAuthError("failed to read token file", GoError("os.ReadFile", NoError)))
        ELSE IF content = EmptyStr
        THEN GetResult(EmptyStr, EmptyStr,
                 NewAuthError("token file is empty, please upgrade your token file", NoError))
        ELSE IF ~Contains(content, <<":">>)
        THEN GetResult(EmptyStr, EmptyStr, NewAuthError("malformed token file", NoError))
        ELSE IF Len(parts) # 2
        THEN GetResult(EmptyStr, EmptyStr, NewAuthError("malformed token file", NoError))
        ELSE IF ~IsSupported(modelStr)
        THEN GetResult(EmptyStr, EmptyStr, NewModelError("unknown model in token file", NoError))
        ELSE GetResult(token, modelStr, NoError)

\* fmt.Sprintf("%s:%s", string(model), token)
TokenFileContent(token, model) == model \o <<":">> \o token

\* the directory after StoreToken, and the error the call returns
FileStoreToken(fs, address, token, model, outcome, written) ==
    LET tokenFile == getTokenFilename(address)
        content   == TokenFileContent(token, model)
    IN  CASE outcome = "mkdir" ->
               [fs  |-> fs,
                err |-> NewAuthError("failed to create token directory", GoError("os.MkdirAll", NoError))]
          [] outcome = "open" ->
               [fs  |-> fs,
                err |-> NewAuthError("failed to write token file", GoError("os.WriteFile", NoError))]
          [] outcome = "write" ->
               [fs  |-> MapSet(fs, tokenFile, SubSeq(content, 1, written)),
                err |-> NewAuthError("failed to write token file", GoError("os.WriteFile", NoError))]
          [] OTHER ->
               [fs  |-> MapSet(fs, tokenFile, content), err |-> NoError]

\* a DeleteToken without the os.IsNotExist test
FileDeleteToken_NoEnoent(fs, address, outcome) ==
    IF outcome # "ok" \/ getTokenFilename(address) \notin DOMAIN fs
    THEN [fs  |-> fs,
          err |-> NewAuthError("failed to delete token file", GoError("os.Remove", NoError))]
    ELSE [fs |-> MapDelete(fs, getTokenFilename(address)), err |-> NoError]

\* the directory after DeleteToken, and the error the call returns
FileDeleteToken(fs, address, outcome) ==
    LET tokenFile == getTokenFilename(address)
    IN  IF outcome # "ok"
        THEN [fs  |-> fs,
              err |-> NewAuthError("failed to delete token file", GoError("os.Remove", NoError))]
        ELSE [fs |-> MapDelete(fs, tokenFile), err |-> NoError]

-----------------------------------------------------------------------------
(* TokenManager: the interface, on the manager in use.  `st` is the state  *)
(* behind it, `io` the outcomes of the system calls of the file manager.   *)

StoreState(kind, m, fs) == [mgr |-> kind, tokens |-> m, files |-> fs]

GetToken(st, address, io) ==
    IF st.mgr = "memory"
    THEN MemoryGetToken(st.tokens, address)
    ELSE FileGetToken(st.files, address, io.read)

\* the state after StoreToken, and the error the call returns
StoreToken(st, address, token, model, io) ==
    IF st.mgr = "memory"
    THEN [st  |-> [st EXCEPT !.tokens = MemoryStoreToken(st.tokens, address, token, model)],
          err |-> NoError]
    ELSE [st  |-> [st EXCEPT !.files = FileStoreToken(st.files, address, token, model,
                                                      io.store, io.written).fs],
          err |-> FileStoreToken(st.files, address, token, model, io.store, io.written).err]

\* the state after DeleteToken, and the error the call returns
DeleteToken(st, address, io) ==
    IF st.mgr = "memory"
    THEN [st  |-> [st EXCEPT !.tokens = MemoryDeleteToken(st.tokens, address)],
          err |-> NoError]
    ELSE [st  |-> [st EXCEPT !.files = FileDeleteToken(st.files, address, io.remove).fs],
          err |-> FileDeleteToken(st.files, address, io.remove).err]

-----------------------------------------------------------------------------
(* internal.HTTPClient and url.Values                                      *)

\* url.Values: nil, or a map from key to its value
NilValues == [isNil |-> TRUE, kv |-> EmptyMap]
Values(kv) == [isNil |-> FALSE, kv |-> kv]

\* the keys the client and the managers set, in the byte order Encode sorts by
KeysSorted ==
    << "Gambit", "LoginPassword", "action", "detection_type", "egress_limit",
       "enabled", "flow_control", "ingress_limit", "mode", "name", "password",
       "port", "power_limit_type", "power_limit_w", "priority", "speed" >>

\* url.QueryEscape, one character at a time
EscapeChar(c) ==
    CASE c = " " -> "+"
      [] c = ":" -> "%3A"
      [] c = ";" -> "%3B"
      [] c = "=" -> "%3D"
      [] OTHER   -> c

QueryEscape(v) == [i \in 1..Len(v) |-> EscapeChar(v[i])]

\* the decoding the receiver applies
UnescapeChar(c) ==
    CASE c = "+"   -> " "
      [] c = "%3A" -> ":"
      [] c = "%3B" -> ";"
      [] c = "%3D" -> "="
      [] OTHER     -> c

QueryUnescape(v) == [i \in 1..Len(v) |-> UnescapeChar(v[i])]

RECURSIVE EncodeFrom(_, _)
EncodeFrom(kv, i) ==
    IF i > Len(KeysSorted) THEN <<>>
    ELSE IF KeysSorted[i] \in DOMAIN kv
    THEN <<[key |-> KeysSorted[i], value |-> QueryEscape(kv[KeysSorted[i]])]>> \o EncodeFrom(kv, i + 1)
    ELSE EncodeFrom(kv, i + 1)

\* url.Values.Encode: "key=value" pairs sorted by key, as the list of pairs
Encode(kv) == EncodeFrom(kv, 1)

\* A request handed to the transport.  step: what the client sends it for;
\* cookie: the Cookie header ("" when not set); query: what follows "?" in
\* the URL; hasBody / body: the form body; contentType: the Content-Type
\* header is set.
HTTPGet(step, path, query, cookie) ==
    [step |-> step, method |-> "GET", path |-> path, query |-> query,
     cookie |-> cookie, hasBody |-> FALSE, body |-> <<>>, contentType |-> FALSE]

HTTPPost(step, path, data, cookie) ==
    [step |-> step, method |-> "POST", path |-> path, query |-> <<>>,
     cookie |-> cookie, hasBody |-> ~data.isNil,
     body |-> IF data.isNil THEN <<>> ELSE Encode(data.kv),
     contentType |-> ~data.isNil]

\* the error of HTTPClient.request when the transport fails (connection
\* refused, timeout, cancelled context), and the error of ReadBody
RequestFailed == GoError("request failed", GoError("transport", NoError))
ReadFailed    == GoError("failed to read response body", GoError("io.ReadAll", NoError))

-----------------------------------------------------------------------------
(* Client                                                                  *)

\* no client: what NewClient returns with an error
NoClient == [exists |-> FALSE]

\* NewClient's struct.  passwordMgr: a password manager is set (not nil).
NewClientStruct(address, passwordMgr) ==
    [exists |-> TRUE, address |-> address, model |-> EmptyStr, token |-> EmptyStr,
     passwordMgr |-> passwordMgr]

\* an IsAuthenticated that takes every client for authenticated
IsAuthenticated_Always(c) == TRUE

IsAuthenticated(c) == c.token # EmptyStr

\* what PasswordManager.GetSwitchConfig answers
ConfigFound(password) == [found |-> TRUE, password |-> password]
ConfigNotFound == [found |-> FALSE, password |-> EmptyStr]

\* a detectModel that gives up when the login page cannot be fetched or read
detectModel_StrictSecond(root, page) ==
    LET first  == HTTPGet("probe", "/", <<>>, EmptyStr)
        second == HTTPGet("probe", "/login.cgi", <<>>, EmptyStr)
        body   == DetectFromHTML(root.text)
        specificModel == DetectFromHTML(page.text)
        modelString ==
            IF body = ModelGS30xEPx /\ specificModel # EmptyStr THEN specificModel ELSE body
    IN  IF ~root.ok
        THEN [model |-> EmptyStr, reqs |-> <<first>>,
              err |-> NewNetworkError("failed to connect to switch", RequestFailed)]
        ELSE IF ~root.readable
        THEN [model |-> EmptyStr, reqs |-> <<first>>,
              err |-> NewNetworkError("failed to read response", ReadFailed)]
        ELSE IF body = ModelGS30xEPx /\ ~(page.ok /\ page.readable)
        THEN [model |-> EmptyStr, reqs |-> <<first, second>>,
              err |-> NewNetworkError("failed to connect to switch", RequestFailed)]
        ELSE [model |-> modelString,
              reqs  |-> IF body = ModelGS30xEPx THEN <<first, second>> ELSE <<first>>,
              err   |-> IF modelString = EmptyStr THEN ErrModelNotDetected ELSE NoError]

\* Client.detectModel.  root: the response to GET "/"; page: the response to
\* GET "/login.cgi", asked for only when the root page names GS30xEPx
detectModel(root, page) ==
    LET first  == HTTPGet("probe", "/", <<>>, EmptyStr)
        second == HTTPGet("probe", "/login.cgi", <<>>, EmptyStr)
        body   == DetectFromHTML(root.text)
        specificModel == DetectFromHTML(page.text)
        modelString ==
            IF /\ body = ModelGS30xEPx
               /\ page.ok /\ page.readable
               /\ specificModel # EmptyStr /\ specificModel # ModelGS30xEPx
            THEN specificModel
            ELSE body
    IN  IF ~root.ok
        THEN [model |-> EmptyStr, reqs |-> <<first>>,
              err |-> NewNetworkError("failed to connect to switch", RequestFailed)]
        ELSE IF ~root.readable
        THEN [model |-> EmptyStr, reqs |-> <<first>>,
              err |-> NewNetworkError("failed to read response", ReadFailed)]
        ELSE [model |-> IF IsSupported(modelString) THEN modelString ELSE EmptyStr,
              reqs  |-> IF body = ModelGS30xEPx THEN <<first, second>> ELSE <<first>>,
              err   |-> IF modelString = EmptyStr THEN ErrModelNotDetected
                        ELSE IF ~IsSupported(modelString)
                        THEN NewModelError("detected model is not supported", NoError)
                        ELSE NoError]

\* Client.getSeedValue
getSeedValue(loginPath, resp) ==
    IF ~resp.ok THEN [seed |-> EmptyStr, err |-> RequestFailed]
    ELSE IF ~resp.readable THEN [seed |-> EmptyStr, err |-> ReadFailed]
    ELSE IF ExtractSeedValue(resp) = EmptyStr
    THEN [seed |-> EmptyStr, err |-> NewAuthError("seed value not found in login page", NoError)]
    ELSE [seed |-> ExtractSeedValue(resp), err |-> NoError]

\* a loginWithSession that returns whatever extractSessionToken found
loginWithSession_NoCheck(password, seedResp, postResp) ==
    LET seed  == getSeedValue("/login.cgi", seedResp)
        get   == HTTPGet("seed", "/login.cgi", <<>>, EmptyStr)
        data  == Values(MapSet(EmptyMap, "password", EncryptPasswordWithSeed(password, seed.seed)))
        post  == HTTPPost("login", "/login.cgi", data, EmptyStr)
    IN  IF seed.err # NoError
        THEN [token |-> EmptyStr, reqs |-> <<get>>,
              err |-> NewAuthError("failed to get seed value", seed.err)]
        ELSE IF ~postResp.ok
        THEN [token |-> EmptyStr, reqs |-> <<get, post>>,
              err |-> NewNetworkError("login request failed", RequestFailed)]
        ELSE [token |-> extractSessionToken(postResp), reqs |-> <<get, post>>, err |-> NoError]

\* a loginWithSession that posts the digest of the password alone when the
\* login page carries no seed
loginWithSession_Unseeded(password, seedResp, postResp) ==
    LET seed  == getSeedValue("/login.cgi", seedResp)
        get   == HTTPGet("seed", "/login.cgi", <<>>, EmptyStr)
        data  == Values(MapSet(EmptyMap, "password", EncryptPasswordWithSeed(password, seed.seed)))
        post  == HTTPPost("login", "/login.cgi", data, EmptyStr)
        token == extractSessionToken(postResp)
    IN  IF ~seedResp.ok \/ ~seedResp.readable
        THEN [token |-> EmptyStr, reqs |-> <<get>>,
              err |-> NewAuthError("failed to get seed value", seed.err)]
        ELSE IF ~postResp.ok
        THEN [token |-> EmptyStr, reqs |-> <<get, post>>,
              err |-> NewNetworkError("login request failed", RequestFailed)]
        ELSE IF token = EmptyStr
        THEN [token |-> EmptyStr, reqs |-> <<get, post>>, err |-> ErrInvalidCredentials]
        ELSE [token |-> token, reqs |-> <<get, post>>, err |-> NoError]

\* Client.loginWithSession.  seedResp: the response to the seed GET;
\* postResp: the response to the credential POST
loginWithSession(password, seedResp, postResp) ==
    LET seed  == getSeedValue("/login.cgi", seedResp)
        get   == HTTPGet("seed", "/login.cgi", <<>>, EmptyStr)
        data  == Values(MapSet(EmptyMap, "password", EncryptPasswordWithSeed(password, seed.seed)))
        post  == HTTPPost("login", "/login.cgi", data, EmptyStr)
        token == extractSessionToken(postResp)
        body  == IF postResp.readable THEN postResp.text ELSE EmptyStr
    IN  IF seed.err # NoError
        THEN [token |-> EmptyStr, reqs |-> <<get>>,
              err |-> NewAuthError("failed to get seed value", seed.err)]
        ELSE IF ~postResp.ok
        THEN [token |-> EmptyStr, reqs |-> <<get, post>>,
              err |-> NewNetworkError("login request failed", RequestFailed)]
        ELSE IF token = EmptyStr
        THEN [token |-> EmptyStr, reqs |-> <<get, post>>,
              err |-> IF ExtractErrorMessage(body) # EmptyStr
                      THEN NewAuthError("login failed: <message>", NoError)
                      ELSE ErrInvalidCredentials]
        ELSE [token |-> token, reqs |-> <<get, post>>, err |-> NoError]

\* a loginWithGambit that does not look for an error message in the body
loginWithGambit_NoMessage(password, seedResp, postResp) ==
    LET seed  == getSeedValue("/wmi/login", seedResp)
        get   == HTTPGet("seed", "/wmi/login", <<>>, EmptyStr)
        data  == Values(MapSet(EmptyMap, "LoginPassword", EncryptPasswordWithSeed(password, seed.seed)))
        post  == HTTPPost("login", "/redirect.html", data, EmptyStr)
        token == ExtractGambitToken(postResp.text)
    IN  IF seed.err # NoError
        THEN [token |-> EmptyStr, reqs |-> <<get>>,
              err |-> NewAuthError("failed to get seed value", seed.err)]
        ELSE IF ~postResp.ok
        THEN [token |-> EmptyStr, reqs |-> <<get, post>>,
              err |-> NewNetworkError("gambit login request failed", RequestFailed)]
        ELSE IF ~postResp.readable
        THEN [token |-> EmptyStr, reqs |-> <<get, post>>,
              err |-> NewNetworkError("failed to read gambit login response", ReadFailed)]
        ELSE IF token = EmptyStr
        THEN [token |-> EmptyStr, reqs |-> <<get, post>>, err |-> ErrInvalidCredentials]
        ELSE [token |-> token, reqs |-> <<get, post>>, err |-> NoError]

\* Client.loginWithGambit
loginWithGambit(password, seedResp, postResp) ==
    LET seed  == getSeedValue("/wmi/login", seedResp)
        get   == HTTPGet("seed", "/wmi/login", <<>>, EmptyStr)
        data  == Values(MapSet(EmptyMap, "LoginPassword", EncryptPasswordWithSeed(password, seed.seed)))
        post  == HTTPPost("login", "/redirect.html", data, EmptyStr)
        token == ExtractGambitToken(postResp.text)
    IN  IF seed.err # NoError
        THEN [token |-> EmptyStr, reqs |-> <<get>>,
              err |-> NewAuthError("failed to get seed value", seed.err)]
        ELSE IF ~postResp.ok
        THEN [token |-> EmptyStr, reqs |-> <<get, post>>,
              err |-> NewNetworkError("gambit login request failed", RequestFailed)]
        ELSE IF ~postResp.readable
        THEN [token |-> EmptyStr, reqs |-> <<get, post>>,
              err |-> NewNetworkError("failed to read gambit login response", ReadFailed)]
        ELSE IF token = EmptyStr
        THEN [token |-> EmptyStr, reqs |-> <<get, post>>,
              err |-> IF ExtractErrorMessage(postResp.text) # EmptyStr
                      THEN NewAuthError("gambit login failed: <message>", NoError)
                      ELSE ErrInvalidCredentials]
        ELSE [token |-> token, reqs |-> <<get, post>>, err |-> NoError]

\* what an operation of the client returns: the client and the token
\* manager's state after it, its error, the requests it sent, and how many
\* times it asked the password manager and called Login, whether it called
\* StoreToken or DeleteToken and what that call returned
OpResult(c, st, err, reqs) ==
    [client |-> c, st |-> st, err |-> err, reqs |-> reqs,
     consulted |-> 0, logins |-> 0, saved |-> FALSE, saveErr |-> NoError]

\* a Login that assigns the token and stores it before it looks at the error
LoginOutcome_AssignsFirst(c, st, auth, io) ==
    [OpResult([c EXCEPT !.token = auth.token],
              StoreToken(st, c.address, auth.token, c.model, io).st,
              auth.err, auth.reqs)
       EXCEPT !.saved = TRUE,
              !.saveErr = StoreToken(st, c.address, auth.token, c.model, io).err]

\* a Login that keeps the token in memory only
LoginOutcome_NoStore(c, st, auth, io) ==
    IF auth.err # NoError
    THEN OpResult(c, st, auth.err, auth.reqs)
    ELSE OpResult([c EXCEPT !.token = auth.token], st, NoError, auth.reqs)

\* a Login that fails when the token cannot be stored
LoginOutcome_StoreFatal(c, st, auth, io) ==
    IF auth.err # NoError
    THEN OpResult(c, st, auth.err, auth.reqs)
    ELSE IF StoreToken(st, c.address, auth.token, c.model, io).err # NoError
    THEN [OpResult(c, StoreToken(st, c.address, auth.token, c.model, io).st,
                   StoreToken(st, c.address, auth.token, c.model, io).err, auth.reqs)
            EXCEPT !.saved = TRUE,
                   !.saveErr = StoreToken(st, c.address, auth.token, c.model, io).err]
    ELSE [OpResult([c EXCEPT !.token = auth.token],
                   StoreToken(st, c.address, auth.token, c.model, io).st,
                   NoError, auth.reqs)
            EXCEPT !.saved = TRUE]

\* a Login that stores the token without the client's model
LoginOutcome_StoresNoModel(c, st, auth, io) ==
    IF auth.err # NoError
    THEN OpResult(c, st, auth.err, auth.reqs)
    ELSE [OpResult([c EXCEPT !.token = auth.token],
                   StoreToken(st, c.address, auth.token, EmptyStr, io).st,
                   NoError, auth.reqs)
            EXCEPT !.saved = TRUE,
                   !.saveErr = StoreToken(st, c.address, auth.token, EmptyStr, io).err]

\* Client.Login from the point where the protocol has returned (token, err):
\* on an error nothing is assigned; otherwise the token is assigned and
\* handed to StoreToken, whose error is not returned
LoginOutcome(c, st, auth, io) ==
    IF auth.err # NoError
    THEN OpResult(c, st, auth.err, auth.reqs)
    ELSE [OpResult([c EXCEPT !.token = auth.token],
                   StoreToken(st, c.address, auth.token, c.model, io).st,
                   NoError, auth.reqs)
            EXCEPT !.saved = TRUE,
                   !.saveErr = StoreToken(st, c.address, auth.token, c.model, io).err]

\* a Login that never asks the password manager
Login_NoLookup(c, st, password, env) ==
    LET auth == IF GetAuthenticationType(c.model) = AuthTypeSession
                THEN loginWithSession(password, env.seed, env.post)
                ELSE loginWithGambit(password, env.seed, env.post)
    IN  IF password = EmptyStr
        THEN [OpResult(c, st, NewAuthError("password cannot be empty", NoError), <<>>)
                EXCEPT !.logins = 1]
        ELSE [LoginOutcome(c, st, auth, env.io) EXCEPT !.logins = 1]

\* Client.Login.  env.pm: the password manager's answer; env.seed, env.post:
\* the device's responses; env.io: the outcomes of the file system calls
Login(c, st, password, env) ==
    LET lookup == password = EmptyStr
        pw     == IF lookup THEN env.pm.password ELSE password
        auth   == IF GetAuthenticationType(c.model) = AuthTypeSession
                  THEN loginWithSession(pw, env.seed, env.post)
                  ELSE loginWithGambit(pw, env.seed, env.post)
    IN  IF lookup /\ ~c.passwordMgr
        THEN [OpResult(c, st, NewAuthError("password cannot be empty", NoError), <<>>)
                EXCEPT !.logins = 1]
        ELSE IF lookup /\ ~env.pm.found
        THEN [OpResult(c, st, NewAuthError("no password provided and no environment variable found",
                                           NoError), <<>>)
                EXCEPT !.logins = 1, !.consulted = 1]
        ELSE [LoginOutcome(c, st, auth, env.io)
                EXCEPT !.logins = 1, !.consulted = IF lookup THEN 1 ELSE 0]

\* NewClient when GetToken returned (token, model, nil)
NewClientFromCache(c, st, cached) ==
    OpResult([c EXCEPT !.token = cached.token, !.model = cached.model], st, NoError, <<>>)

\* NewClient when no token is cached and the password manager found a
\* password: detect the model, then log in with that password
NewClientAuto(c, st, env) ==
    LET detected == detectModel(env.root, env.page)
        login    == Login([c EXCEPT !.model = detected.model], st, env.pm.password, env)
    IN  IF detected.err # NoError
        THEN [OpResult(NoClient, st, NewModelError("failed to detect switch model", detected.err),
                       detected.reqs)
                EXCEPT !.consulted = 1]
        ELSE IF login.err # NoError
        THEN [login EXCEPT !.client = NoClient,
                           !.err = GoError("auto-authentication failed", login.err),
                           !.reqs = detected.reqs \o login.reqs,
                           !.consulted = 1 + login.consulted]
        ELSE [login EXCEPT !.reqs = detected.reqs \o login.reqs,
                           !.consulted = 1 + login.consulted]

\* a constructor that logs in with a built-in password when none was found
NewClientDetect_LogsIn(c, st, env) ==
    [NewClientAuto(c, st, [env EXCEPT !.pm = ConfigFound(<<"p">>)])
       EXCEPT !.consulted = IF c.passwordMgr THEN 1 ELSE 0]

\* a constructor that hands on the error of detectModel as it is
NewClientDetect_Unwrapped(c, st, env) ==
    LET detected == detectModel(env.root, env.page)
    IN  IF detected.err # NoError
        THEN [OpResult(NoClient, st, detected.err, detected.reqs)
                EXCEPT !.consulted = IF c.passwordMgr THEN 1 ELSE 0]
        ELSE [OpResult([c EXCEPT !.model = detected.model], st, NoError, detected.reqs)
                EXCEPT !.consulted = IF c.passwordMgr THEN 1 ELSE 0]

\* NewClient when no token is cached and no password was found: detect the
\* model for a later Login
NewClientDetect(c, st, env) ==
    LET detected == detectModel(env.root, env.page)
    IN  IF detected.err # NoError
        THEN [OpResult(NoClient, st, NewModelError("failed to detect switch model", detected.err),
                       detected.reqs)
                EXCEPT !.consulted = IF c.passwordMgr THEN 1 ELSE 0]
        ELSE [OpResult([c EXCEPT !.model = detected.model], st, NoError, detected.reqs)
                EXCEPT !.consulted = IF c.passwordMgr THEN 1 ELSE 0]

\* a constructor that does not look for a cached token
NewClient_IgnoresCache(address, passwordMgr, st, env) ==
    IF passwordMgr /\ env.pm.found
    THEN NewClientAuto(NewClientStruct(address, passwordMgr), st, env)
    ELSE NewClientDetect(NewClientStruct(address, passwordMgr), st, env)

\* NewClient(address, WithTokenManager(..), WithPasswordManager(..) or
\* WithEnvironmentAuth(false))
NewClient(address, passwordMgr, st, env) ==
    LET c      == NewClientStruct(address, passwordMgr)
        cached == GetToken(st, address, env.io)
    IN  IF cached.err = NoError THEN NewClientFromCache(c, st, cached)
        ELSE IF passwordMgr /\ env.pm.found THEN NewClientAuto(c, st, env)
        ELSE NewClientDetect(c, st, env)

\* a Logout that leaves the token in memory
Logout_KeepsToken(c, st, io) ==
    [OpResult(c, DeleteToken(st, c.address, io).st, NoError, <<>>)
       EXCEPT !.saved = TRUE, !.saveErr = DeleteToken(st, c.address, io).err]

\* Client.Logout: the error of DeleteToken is not returned
Logout(c, st, io) ==
    [OpResult([c EXCEPT !.token = EmptyStr], DeleteToken(st, c.address, io).st, NoError, <<>>)
       EXCEPT !.saved = TRUE, !.saveErr = DeleteToken(st, c.address, io).err]

\* Client.makeAuthenticatedRequest after its IsAuthenticated test: the
\* request is built from c.token and c.model as they are read then, and sent
authenticatedRequest(c, method, path, data, resp) ==
    LET authType == GetAuthenticationType(c.model)
        cookie   == IF authType = AuthTypeSession THEN <<"S", "I", "D", "=">> \o c.token
                    ELSE EmptyStr
        form     == IF authType = AuthTypeGambit
                    THEN Values(MapSet(data.kv, "Gambit", c.token))
                    ELSE data
        req      == IF method = "GET"
                    THEN HTTPGet("api", path,
                                 IF DOMAIN form.kv # {} THEN Encode(form.kv) ELSE <<>>, cookie)
                    ELSE HTTPPost("api", path, form, cookie)
        \* url.Values is a map: Set on a non-nil data writes into the
        \* caller's map, a nil data is replaced by a map of the callee
        after    == IF authType = AuthTypeGambit /\ ~data.isNil THEN form ELSE data
    IN  IF ~resp.ok
        THEN [body |-> EmptyStr, reqs |-> <<req>>, data |-> after,
              err |-> NewNetworkError(IF method = "GET" THEN "GET request failed"
                                      ELSE "POST request failed", RequestFailed)]
        ELSE IF ~resp.readable
        THEN [body |-> EmptyStr, reqs |-> <<req>>, data |-> after, err |-> ReadFailed]
        ELSE [body |-> resp.text, reqs |-> <<req>>, data |-> after, err |-> NoError]

\* Client.makeAuthenticatedRequest.  resp: the device's response
makeAuthenticatedRequest(c, method, path, data, resp) ==
    IF ~IsAuthenticated(c)
    THEN [body |-> EmptyStr, err |-> ErrNotAuthenticated, reqs |-> <<>>, data |-> data]
    ELSE authenticatedRequest(c, method, path, data, resp)

-----------------------------------------------------------------------------
(* POEManager and PortManager                                              *)

\* an optional field of an update (a nil or non-nil pointer)
None == [set |-> FALSE, v |-> EmptyStr]
Some(v) == [set |-> TRUE, v |-> v]
NoBool == [set |-> FALSE, v |-> FALSE]
SomeBool(b) == [set |-> TRUE, v |-> b]
NoNumber == [set |-> FALSE, v |-> 0]
SomeNumber(n) == [set |-> TRUE, v |-> n]

DigitChars == <<"0", "1", "2", "3", "4", "5", "6", "7", "8", "9">>

\* strconv.Itoa
RECURSIVE Itoa(_)
Itoa(n) ==
    IF n < 0 THEN <<"-">> \o Itoa(0 - n)
    ELSE IF n < 10 THEN <<DigitChars[n + 1]>>
    ELSE Itoa(n \div 10) \o <<DigitChars[(n % 10) + 1]>>

\* fmt.Sprintf("%.2f", w) for a whole number of watts
FormatWatts(w) == Itoa(w) \o <<".", "0", "0">>

\* what an operation of a manager returns
ManagerResult(err, reqs) == [err |-> err, reqs |-> reqs]

\* the form POEManager.UpdatePort builds for one update
POEUpdateData(update) ==
    LET d0 == MapSet(EmptyMap, "port", Itoa(update.PortID))
        d1 == IF update.Enabled.set
              THEN MapSet(d0, "enabled", IF update.Enabled.v THEN <<"1">> ELSE <<"0">>)
              ELSE d0
        d2 == IF update.Mode.set THEN MapSet(d1, "mode", update.Mode.v) ELSE d1
        d3 == IF update.Priority.set THEN MapSet(d2, "priority", update.Priority.v) ELSE d2
        d4 == IF update.PowerLimitType.set
              THEN MapSet(d3, "power_limit_type", update.PowerLimitType.v) ELSE d3
        d5 == IF update.PowerLimitW.set
              THEN MapSet(d4, "power_limit_w", FormatWatts(update.PowerLimitW.v)) ELSE d4
    IN  IF update.DetectionType.set
        THEN MapSet(d5, "detection_type", update.DetectionType.v) ELSE d5

\* the form PortManager.UpdatePort builds for one update
PortUpdateData(update) ==
    LET d0 == MapSet(EmptyMap, "port", Itoa(update.PortID))
        d1 == IF update.Name.set THEN MapSet(d0, "name", update.Name.v) ELSE d0
        d2 == IF update.Speed.set THEN MapSet(d1, "speed", update.Speed.v) ELSE d1
        d3 == IF update.IngressLimit.set
              THEN MapSet(d2, "ingress_limit", update.IngressLimit.v) ELSE d2
        d4 == IF update.EgressLimit.set
              THEN MapSet(d3, "egress_limit", update.EgressLimit.v) ELSE d3
    IN  IF update.FlowControl.set
        THEN MapSet(d4, "flow_control", IF update.FlowControl.v THEN <<"o", "n">>
                                        ELSE <<"o", "f", "f">>)
        ELSE d4

\* the form POEManager.CyclePower builds for one port
CycleData(portID) ==
    MapSet(MapSet(EmptyMap, "port", Itoa(portID)), "action", <<"c", "y", "c", "l", "e">>)

\* the loop of UpdatePort and CyclePower: one POST per form, in order, up
\* to the first request that fails or response that carries an error message
RECURSIVE PostEach(_, _, _, _, _, _)
PostEach(c, what, endpoint, forms, resps, sentSoFar) ==
    IF forms = <<>> THEN ManagerResult(NoError, sentSoFar)
    ELSE LET r == makeAuthenticatedRequest(c, "POST", endpoint, Values(Head(forms)), Head(resps))
         IN  IF r.err # NoError
             THEN ManagerResult(NewOperationError(what.failed, r.err),
                                sentSoFar \o r.reqs)
             ELSE IF ExtractErrorMessage(r.body) # EmptyStr
             THEN ManagerResult(NewOperationError(what.rejected, NoError),
                                sentSoFar \o r.reqs)
             ELSE PostEach(c, what, endpoint, Tail(forms), Tail(resps), sentSoFar \o r.reqs)

\* the read operations: GetStatus and GetSettings.  The parsers take any
\* text (the HTML parser does not fail on a string), so the operation fails
\* only when the request does
GetFrom(c, what, endpoint30x, endpoint316, resp) ==
    LET endpoint == IF IsModel30x(c.model) THEN endpoint30x ELSE endpoint316
        r == makeAuthenticatedRequest(c, "GET", endpoint, NilValues, resp)
    IN  IF ~IsAuthenticated(c) THEN ManagerResult(ErrNotAuthenticated, <<>>)
        ELSE IF ~IsModel30x(c.model) /\ ~IsModel316(c.model)
        THEN ManagerResult(NewOperationError(what.unsupported, NoError), <<>>)
        ELSE IF r.err # NoError
        THEN ManagerResult(NewOperationError(what.failed, r.err), r.reqs)
        ELSE ManagerResult(NoError, r.reqs)

\* the write operations: UpdatePort and CyclePower
PostTo(c, what, endpoint30x, endpoint316, forms, resps) ==
    IF ~IsAuthenticated(c) THEN ManagerResult(ErrNotAuthenticated, <<>>)
    ELSE IF forms = <<>>
    THEN ManagerResult(NewOperationError(what.empty, NoError), <<>>)
    ELSE IF ~IsModel30x(c.model) /\ ~IsModel316(c.model)
    THEN ManagerResult(NewOperationError(what.unsupported, NoError), <<>>)
    ELSE PostEach(c, what, IF IsModel30x(c.model) THEN endpoint30x ELSE endpoint316,
                  forms, resps, <<>>)

\* the messages of the errors of an operation
Messages(unsupported, failed, empty, rejected) ==
    [unsupported |-> unsupported, failed |-> failed, empty |-> empty, rejected |-> rejected]

POEGetStatus(c, resp) ==
    GetFrom(c, Messages("POE status not supported for this model",
                        "failed to get POE status", "", ""),
            "/getPoePortStatus.cgi", "/iss/specific/poePortStatus.html", resp)

POEGetSettings(c, resp) ==
    GetFrom(c, Messages("POE settings not supported for this model",
                        "failed to get POE settings", "", ""),
            "/PoEPortConfig.cgi", "/iss/specific/poePortConf.html", resp)

POEUpdatePort(c, updates, resps) ==
    PostTo(c, Messages("POE updates not supported for this model",
                       "failed to update port <id>", "no updates provided",
                       "update failed for port <id>: <message>"),
           "/PoEPortConfig.cgi", "/iss/specific/poePortConf.html",
           [i \in 1..Len(updates) |-> POEUpdateData(updates[i])], resps)

POECyclePower(c, portIDs, resps) ==
    PostTo(c, Messages("POE power cycle not supported for this model",
                       "failed to cycle power for port <id>",
                       "no ports specified for power cycle",
                       "power cycle failed for port <id>: <message>"),
           "/PoEPortConfig.cgi", "/iss/specific/poePortConf.html",
           [i \in 1..Len(portIDs) |-> CycleData(portIDs[i])], resps)

PortGetSettings(c, resp) ==
    GetFrom(c, Messages("port settings not supported for this model",
                        "failed to get port settings", "", ""),
            "/PortStatistics.cgi", "/iss/specific/interface.html", resp)

PortUpdatePort(c, updates, resps) ==
    PostTo(c, Messages("port updates not supported for this model",
                       "failed to update port <id>", "no updates provided",
                       "update failed for port <id>: <message>"),
           "/PortConfig.cgi", "/iss/specific/interface.html",
           [i \in 1..Len(updates) |-> PortUpdateData(updates[i])], resps)

-----------------------------------------------------------------------------
(* Inputs                                                                  *)

\* token strings handed to StoreToken: empty, plain, with a leading space,
\* with the separator inside
StoreTokens == {EmptyStr, <<"a">>, <<" ", "a">>, <<"a", ":", "b">>}

\* a model string outside the supported set
ModelUnknown == <<"X">>

\* Model values handed to the file manager's StoreToken
StoreModels == {ModelGS305EP, ModelGS316EPP}

\* how many bytes a failed os.WriteFile may have left in the truncated file:
\* none, half of them, all but the last
WritePoints(content) == {0, Len(content) \div 2, Len(content) - 1}

\* contents a token file may have that StoreToken did not write: the empty
\* file of the old format, hand-edited or damaged files
RawContents ==
    { EmptyStr,
      <<":">>,
      ModelGS305EP,
      ModelUnknown \o <<":", "a">>,
      ModelGS305EP \o <<":", "a", ":", "b", "\n">>,
      <<" ">> \o ModelGS316EP \o <<" ", ":", " ", "a">> }

\* the longest log of TokenManager calls that is kept
MaxOps == 3

\* the tokens and models of the calls that are logged
LoggedTokens == {EmptyStr, <<"a">>, <<"b">>}
LoggedModels == {ModelGS305EP, ModelUnknown}

-----------------------------------------------------------------------------
(* The device and the environment of a client                              *)

\* the request got no response: connection refused, timeout, cancelled context
RespFailed == Response(FALSE, FALSE, EmptyStr, FALSE, EmptyStr, EmptyStr)
\* the body cannot be read to its end
RespUnreadable == Response(TRUE, FALSE, EmptyStr, FALSE, EmptyStr, EmptyStr)
\* a page with nothing the client looks for
RespBlank == Response(TRUE, TRUE, EmptyStr, FALSE, EmptyStr, EmptyStr)
\* the root page of a GS30x device: a redirect to the login page
RespRedirect ==
    Response(TRUE, TRUE, EmptyStr, FALSE, EmptyStr, <<"r", "e", "d", "i", "r", "e", "c", "t">>)
\* a login page that names the model and carries the seed
RespLogin305 == Response(TRUE, TRUE, EmptyStr, TRUE, <<"1", "2">>, ModelGS305EP)
RespLogin316 == Response(TRUE, TRUE, EmptyStr, TRUE, <<"7">>, ModelGS316EPP)
\* the answer to an accepted session login
RespSid ==
    Response(TRUE, TRUE, <<"S", "I", "D", "=", "a", ";", "P", "a", "t", "h", "=", "/">>,
             FALSE, EmptyStr, EmptyStr)
\* an answer whose SID cookie has no value
RespSidEmpty ==
    Response(TRUE, TRUE, <<"S", "I", "D", "=", ";", "P", "a", "t", "h", "=", "/">>,
             FALSE, EmptyStr, EmptyStr)
\* the answer to an accepted gambit login
RespGambit ==
    Response(TRUE, TRUE, EmptyStr, FALSE, EmptyStr, <<"G", "a", "m", "b", "i", "t", "=", "b">>)
\* an answer that carries an error message
RespError ==
    Response(TRUE, TRUE, EmptyStr, FALSE, EmptyStr,
             <<"e", "r", "r", "o", "r", "=", "\"", "b", "a", "d", "\"">>)

\* one response of each kind that each request tells apart
ProbeResponses == {RespFailed, RespUnreadable, RespBlank, RespRedirect, RespLogin305, RespLogin316}
SeedResponses  == {RespFailed, RespUnreadable, RespBlank, RespLogin305}
PostResponses  ==
    {RespFailed, RespUnreadable, RespBlank, RespSid, RespSidEmpty, RespGambit, RespError}
ApiResponses   == {RespFailed, RespUnreadable, RespBlank, RespError}

\* what the password manager may answer
PmAnswers == {ConfigNotFound, ConfigFound(<<"q", "r">>)}

\* the passwords Login is called with
LoginPasswords == {EmptyStr, <<"p">>}

\* the address of the client
ClientAddress == <<"a">>

\* the outcomes of the system calls of one TokenManager call
IO(read, store, written, remove) ==
    [read |-> read, store |-> store, written |-> written, remove |-> remove]
DefaultIO == IO("ok", "ok", 0, "ok")

\* the inputs of one operation of the client
Env(pm, root, page, seed, post, io) ==
    [pm |-> pm, root |-> root, page |-> page, seed |-> seed, post |-> post, io |-> io]
DefaultEnv == Env(ConfigNotFound, RespBlank, RespBlank, RespBlank, RespBlank, DefaultIO)

\* the ways a StoreToken(token, model) can go on the manager in use
StoreIOs(kind, token, model) ==
    IF kind = "memory" THEN {DefaultIO}
    ELSE {IO("ok", o, 0, "ok") : o \in StoreOutcomes \ {"write"}}
         \cup {IO("ok", "write", n, "ok") : n \in WritePoints(TokenFileContent(token, model))}

\* the inputs a Login of client c with password pw can meet, each once:
\* the POST is answered only if the seed was found, and the token is stored
\* only if the login was accepted
LoginEnvs(c, pw, base) ==
    UNION { UNION { LET e == [base EXCEPT !.seed = sd, !.post = po]
                        r == Login(c, StoreState("memory", EmptyMap, EmptyMap), pw, e)
                    IN  IF r.err = NoError
                        THEN {[e EXCEPT !.io = [i EXCEPT !.read = base.io.read]] :
                                i \in StoreIOs(mgr, r.client.token, c.model)}
                        ELSE {e} :
                    po \in IF getSeedValue("", sd).err = NoError
                           THEN PostResponses ELSE {RespBlank} } :
            sd \in SeedResponses }

\* the inputs a model detection can meet, each once: the login page is
\* asked for only if the root page names no model
DetectEnvs(base) ==
    UNION { { [base EXCEPT !.root = rt, !.page = pg] :
                pg \in IF rt.ok /\ rt.readable /\ DetectFromHTML(rt.text) = ModelGS30xEPx
                       THEN ProbeResponses ELSE {RespBlank} } :
            rt \in ProbeResponses }

\* the inputs a NewClient(address, passwordMgr) can meet, each once
NewClientEnvs(address, passwordMgr) ==
    UNION { IF GetToken(StoreState(mgr, tokens, files), address, IO(rd, "ok", 0, "ok")).err = NoError
            THEN {[DefaultEnv EXCEPT !.io = IO(rd, "ok", 0, "ok")]}
            ELSE UNION { UNION { IF detectModel(e.root, e.page).err = NoError /\ e.pm.found
                                 THEN LoginEnvs([NewClientStruct(address, passwordMgr)
                                                   EXCEPT !.model = detectModel(e.root, e.page).model],
                                                e.pm.password, e)
                                 ELSE {e} :
                                 e \in DetectEnvs([DefaultEnv EXCEPT !.pm = pm,
                                                                     !.io = IO(rd, "ok", 0, "ok")]) } :
                         pm \in IF passwordMgr THEN PmAnswers ELSE {ConfigNotFound} } :
            rd \in IF mgr = "memory" THEN {"ok"} ELSE ReadOutcomes }

-----------------------------------------------------------------------------
(* What the last operation was                                             *)

NoLast ==
    [ op      |-> "none",       \* the operation
      address |-> EmptyStr,     \* the address it was called with
      token   |-> EmptyStr,     \* the token it was called with
      model   |-> EmptyStr,     \* the model it was called with
      err     |-> NoError,      \* the error it returned
      res     |-> GetResult(EmptyStr, EmptyStr, NoError),  \* GetToken's result
      had     |-> FALSE,        \* an entry for the address existed before
      io      |-> "none",       \* how the system call of a file manager call went
      password  |-> EmptyStr,   \* the password Login was called with
      found     |-> FALSE,      \* the password manager has a password for the address
      consulted |-> 0,          \* how many times the password manager was asked
      logins    |-> 0,          \* how many times Login was entered
      saved     |-> FALSE,      \* StoreToken or DeleteToken was called
      saveErr   |-> NoError,    \* the error that call returned
      method    |-> "none",     \* the method makeAuthenticatedRequest was called with
      data      |-> NilValues,  \* the form it was called with
      dataAfter |-> NilValues,  \* what the caller's form holds when it has returned
      updates   |-> <<>>,       \* the updates UpdatePort was called with
      answer    |-> RespBlank,  \* what the device answered makeAuthenticatedRequest
      body      |-> EmptyStr,   \* the body makeAuthenticatedRequest returned
      env       |-> DefaultEnv ] \* what the device, the password manager and the
                                \* file system answered, where a run records it

-----------------------------------------------------------------------------
(* The token managers used on their own: any sequence of GetToken,         *)
(* StoreToken and DeleteToken calls on one manager                         *)

LogEntry(op, address, token, model) ==
    [op |-> op, address |-> address, token |-> token, model |-> model]

MemStore(address, token, model) ==
    /\ mgr = "memory"
    /\ Len(oplog) < MaxOps
    /\ tokens' = MemoryStoreToken(tokens, address, token, model)
    /\ oplog' = Append(oplog, LogEntry("StoreToken", address, token, model))
    /\ last' = [NoLast EXCEPT !.op = "StoreToken", !.address = address,
                              !.token = token, !.model = model,
                              !.had = (address \in DOMAIN tokens)]
    /\ UNCHANGED <<threads, mgr, files, client, sent>>

MemDelete(address) ==
    /\ mgr = "memory"
    /\ Len(oplog) < MaxOps
    /\ tokens' = MemoryDeleteToken(tokens, address)
    /\ oplog' = Append(oplog, LogEntry("DeleteToken", address, EmptyStr, EmptyStr))
    /\ last' = [NoLast EXCEPT !.op = "DeleteToken", !.address = address,
                              !.had = (address \in DOMAIN tokens)]
    /\ UNCHANGED <<threads, mgr, files, client, sent>>

MemGet(address) ==
    /\ mgr = "memory"
    /\ last' = [NoLast EXCEPT !.op = "GetToken", !.address = address,
                              !.res = MemoryGetToken(tokens, address),
                              !.err = MemoryGetToken(tokens, address).err,
                              !.had = (address \in DOMAIN tokens)]
    /\ UNCHANGED <<threads, mgr, tokens, files, client, sent, oplog>>

FileStore(address, token, model, outcome, written) ==
    /\ mgr = "file"
    /\ files' = FileStoreToken(files, address, token, model, outcome, written).fs
    /\ last' = [NoLast EXCEPT !.op = "StoreToken", !.address = address,
                              !.token = token, !.model = model,
                              !.err = FileStoreToken(files, address, token, model, outcome, written).err,
                              !.had = (getTokenFilename(address) \in DOMAIN files),
                              !.io = outcome]
    /\ UNCHANGED <<threads, mgr, tokens, client, sent, oplog>>

FileDelete(address, outcome) ==
    /\ mgr = "file"
    /\ files' = FileDeleteToken(files, address, outcome).fs
    /\ last' = [NoLast EXCEPT !.op = "DeleteToken", !.address = address,
                              !.err = FileDeleteToken(files, address, outcome).err,
                              !.had = (getTokenFilename(address) \in DOMAIN files),
                              !.io = outcome]
    /\ UNCHANGED <<threads, mgr, tokens, client, sent, oplog>>

FileGet(address, outcome) ==
    /\ mgr = "file"
    /\ last' = [NoLast EXCEPT !.op = "GetToken", !.address = address,
                              !.res = FileGetToken(files, address, outcome),
                              !.err = FileGetToken(files, address, outcome).err,
                              !.had = (getTokenFilename(address) \in DOMAIN files),
                              !.io = outcome]
    /\ UNCHANGED <<threads, mgr, tokens, files, client, sent, oplog>>

\* a token file left behind by something other than StoreToken
ExternalWrite(address, content) ==
    /\ mgr = "file"
    /\ files' = MapSet(files, getTokenFilename(address), content)
    /\ last' = [NoLast EXCEPT !.op = "ExternalWrite", !.address = address]
    /\ UNCHANGED <<threads, mgr, tokens, client, sent, oplog>>

\* NewMemoryTokenManager / NewFileTokenManager on an empty directory
InitStore ==
    /\ mgr \in {"memory", "file"}
    /\ tokens = EmptyMap
    /\ files = EmptyMap
    /\ client = NoClient
    /\ sent = <<>>
    /\ last = NoLast
    /\ oplog = <<>>
    /\ threads = NoThreads

NextStore ==
    \/ \E a \in Addresses, t \in LoggedTokens, m \in LoggedModels : MemStore(a, t, m)
    \/ \E a \in Addresses : MemDelete(a)
    \/ \E a \in Addresses : MemGet(a)
    \/ \E a \in Addresses, t \in StoreTokens, m \in StoreModels, o \in StoreOutcomes :
         \E n \in WritePoints(TokenFileContent(t, m)) :
            /\ (o # "write" => n = 0)
            /\ FileStore(a, t, m, o, n)
    \/ \E a \in Addresses, o \in RemoveOutcomes : FileDelete(a, o)
    \/ \E a \in Addresses, o \in ReadOutcomes : FileGet(a, o)
    \/ \E a \in Addresses, c \in RawContents : ExternalWrite(a, c)

SpecStore == InitStore /\ [][NextStore]_vars

-----------------------------------------------------------------------------
(* The client: construction, Login, Logout and requests                    *)

St == StoreState(mgr, tokens, files)

\* an operation of the client returned r
Returned(op, r, password, found, cached, env) ==
    /\ client' = r.client
    /\ tokens' = r.st.tokens
    /\ files' = r.st.files
    /\ sent' = r.reqs
    /\ last' = [NoLast EXCEPT !.op = op, !.address = ClientAddress, !.err = r.err,
                              !.env = env,
                              !.password = password, !.found = found, !.res = cached,
                              !.had = (cached.err = NoError),
                              !.consulted = r.consulted, !.logins = r.logins,
                              !.saved = r.saved, !.saveErr = r.saveErr]
    /\ UNCHANGED <<threads, mgr, oplog>>

\* NewClient, called by a program that holds no client
DoNewClient(passwordMgr, env) ==
    /\ client = NoClient
    /\ Returned("NewClient", NewClient(ClientAddress, passwordMgr, St, env), env.pm.password,
                passwordMgr /\ env.pm.found, GetToken(St, ClientAddress, env.io), DefaultEnv)

\* the program that holds the client ends; what the token manager keeps stays
Exit ==
    /\ client.exists
    /\ client' = NoClient
    /\ sent' = <<>>
    /\ last' = [NoLast EXCEPT !.op = "Exit", !.address = client.address]
    /\ UNCHANGED <<threads, mgr, tokens, files, oplog>>

DoLogin(password, env) ==
    /\ client.exists
    /\ Returned("Login", Login(client, St, password, env), password,
                client.passwordMgr /\ env.pm.found, NoLast.res, DefaultEnv)

DoLogout(io) ==
    /\ client.exists
    /\ Returned("Logout", Logout(client, St, io), EmptyStr, FALSE, NoLast.res, DefaultEnv)

\* NewClient and Login of a run that records what they were answered
ObsNewClient(passwordMgr, env) ==
    /\ client = NoClient
    /\ Returned("NewClient", NewClient(ClientAddress, passwordMgr, St, env), env.pm.password,
                passwordMgr /\ env.pm.found, GetToken(St, ClientAddress, env.io), env)

ObsLogin(password, env) ==
    /\ client.exists
    /\ Returned("Login", Login(client, St, password, env), password,
                client.passwordMgr /\ env.pm.found, NoLast.res, env)

\* an operation of a manager returned r
ManagerReturned(op, r) ==
    /\ sent' = r.reqs
    /\ last' = [NoLast EXCEPT !.op = op, !.address = client.address, !.err = r.err]
    /\ UNCHANGED <<threads, mgr, tokens, files, client, oplog>>

\* an UpdatePort of a manager, called with the updates, returned r
UpdateReturned(op, r, updates) ==
    /\ sent' = r.reqs
    /\ last' = [NoLast EXCEPT !.op = op, !.address = client.address, !.err = r.err,
                              !.updates = updates]
    /\ UNCHANGED <<threads, mgr, tokens, files, client, oplog>>

DoPOEGetStatus(resp) ==
    /\ client.exists
    /\ ManagerReturned("POE.GetStatus", POEGetStatus(client, resp))

\* the stores a program may start with: nothing stored; a token stored for
\* the address; a token stored for another address; an entry that is not
\* one of a supported device (memory) or an empty file of the old format
InitialTokens ==
    { EmptyMap,
      MemoryStoreToken(EmptyMap, ClientAddress, <<"a", ":", "b">>, ModelGS316EP),
      MemoryStoreToken(EmptyMap, <<"b">>, <<"c">>, ModelGS308EP),
      MemoryStoreToken(EmptyMap, ClientAddress, <<"c">>, ModelUnknown) }

InitialFiles ==
    { EmptyMap,
      FileStoreToken(EmptyMap, ClientAddress, <<"a", ":", "b">>, ModelGS316EP, "ok", 0).fs,
      FileStoreToken(EmptyMap, <<"b">>, <<"c">>, ModelGS308EP, "ok", 0).fs,
      MapSet(EmptyMap, getTokenFilename(ClientAddress), EmptyStr) }

Init ==
    /\ mgr \in {"memory", "file"}
    /\ tokens \in IF mgr = "memory" THEN InitialTokens ELSE {EmptyMap}
    /\ files \in IF mgr = "file" THEN InitialFiles ELSE {EmptyMap}
    /\ client = NoClient
    /\ sent = <<>>
    /\ last = NoLast
    /\ oplog = <<>>
    /\ threads = NoThreads

Next ==
    \/ \E pmgr \in BOOLEAN :
          \E env \in IF client = NoClient THEN NewClientEnvs(ClientAddress, pmgr) ELSE {} :
             DoNewClient(pmgr, env)
    \/ Exit
    \/ \E pw \in LoginPasswords :
          \E pm \in IF pw = EmptyStr /\ client.exists /\ client.passwordMgr
                    THEN PmAnswers ELSE {ConfigNotFound} :
             \E env \in IF client.exists
                        THEN LoginEnvs(client, pw, [DefaultEnv EXCEPT !.pm = pm])
                        ELSE {} :
                DoLogin(pw, env)
    \/ \E rm \in IF mgr = "memory" THEN {"ok"} ELSE RemoveOutcomes :
          DoLogout(IO("ok", "ok", 0, rm))
    \/ \E resp \in IF client.exists /\ IsAuthenticated(client) THEN ApiResponses ELSE {RespBlank} :
          DoPOEGetStatus(resp)

Spec == Init /\ [][Next]_vars

\* the same program with a memory token manager, without Logout and
\* requests, recording what NewClient and Login were answered
InitErrors == Init /\ mgr = "memory"

NextErrors ==
    \/ \E pmgr \in BOOLEAN :
          \E env \in IF client = NoClient THEN NewClientEnvs(ClientAddress, pmgr) ELSE {} :
             ObsNewClient(pmgr, env)
    \/ Exit
    \/ \E pw \in LoginPasswords :
          \E pm \in IF pw = EmptyStr /\ client.exists /\ client.passwordMgr
                    THEN PmAnswers ELSE {ConfigNotFound} :
             \E env \in IF client.exists
                        THEN LoginEnvs(client, pw, [DefaultEnv EXCEPT !.pm = pm])
                        ELSE {} :
                ObsLogin(pw, env)

SpecErrors == InitErrors /\ [][NextErrors]_vars

-----------------------------------------------------------------------------
(* The managers and the request layer on a client that loaded its token    *)
(* and model from the token manager                                        *)

\* the most updates or ports one call is given
MaxUpdates == 2

\* the tokens and models loaded: no token, a plain one, one with characters
\* that a URL escapes; a model of each family, the generic one and a
\* string that is no model
OpsTokens == {EmptyStr, <<"a">>, <<"a", ":", " ">>}
OpsModels == {ModelGS305EP, ModelGS30xEPx, ModelGS316EPP, ModelUnknown}

NoUpdate(portID) ==
    [PortID |-> portID, Enabled |-> NoBool, Mode |-> None, Priority |-> None,
     PowerLimitType |-> None, PowerLimitW |-> NoNumber, DetectionType |-> None]

\* POEPortUpdate values: nothing set, every field set
POEUpdates ==
    { NoUpdate(1),
      [NoUpdate(12) EXCEPT !.Enabled = SomeBool(FALSE),
                           !.Mode = Some(<<"a", "t">>),
                           !.Priority = Some(<<"l", "o", "w">>),
                           !.PowerLimitType = Some(<<"u", "s", "e", "r">>),
                           !.PowerLimitW = SomeNumber(15),
                           !.DetectionType = Some(<<"4", "p", "t", " ", "8">>)] }

NoPortUpdate(portID) ==
    [PortID |-> portID, Name |-> None, Speed |-> None, IngressLimit |-> None,
     EgressLimit |-> None, FlowControl |-> NoBool]

\* PortUpdate values: nothing set, every field set
PortUpdates ==
    { NoPortUpdate(1),
      [NoPortUpdate(2) EXCEPT !.Name = Some(<<"x", " ", "y">>),
                              !.Speed = Some(<<"a", "u", "t", "o">>),
                              !.IngressLimit = Some(<<"1">>),
                              !.EgressLimit = Some(<<"2">>),
                              !.FlowControl = SomeBool(TRUE)] }

\* port numbers handed to CyclePower
CyclePorts == {1, 12}

\* the forms handed to makeAuthenticatedRequest directly
RequestForms ==
    {NilValues, Values(EmptyMap), Values(MapSet(EmptyMap, "port", <<"1">>))}

\* the sequences of at most n elements of S
SeqsUpTo(S, n) == UNION {[1..k -> S] : k \in 0..n}

\* the device lets the loop of an operation go on after this response
Continues(resp) ==
    resp.ok /\ resp.readable /\ ExtractErrorMessage(resp.text) = EmptyStr

ContinuingResponses == {resp \in ApiResponses : Continues(resp)}

\* the responses to the n requests of a loop, each once: nothing is asked
\* after the response that stops the loop
ResponsesTo(c, n) ==
    IF ~IsAuthenticated(c) THEN {[i \in 1..n |-> RespBlank]}
    ELSE {rs \in [1..n -> ApiResponses] :
            \A i \in 1..n : rs[i] \notin ContinuingResponses =>
                \A j \in (i + 1)..n : rs[j] = RespBlank}

DoPOEGetSettings(resp) ==
    /\ client.exists
    /\ ManagerReturned("POE.GetSettings", POEGetSettings(client, resp))

DoPOEUpdatePort(updates, resps) ==
    /\ client.exists
    /\ UpdateReturned("POE.UpdatePort", POEUpdatePort(client, updates, resps), updates)

DoPOECyclePower(portIDs, resps) ==
    /\ client.exists
    /\ ManagerReturned("POE.CyclePower", POECyclePower(client, portIDs, resps))

DoPortGetSettings(resp) ==
    /\ client.exists
    /\ ManagerReturned("Ports.GetSettings", PortGetSettings(client, resp))

DoPortUpdatePort(updates, resps) ==
    /\ client.exists
    /\ UpdateReturned("Ports.UpdatePort", PortUpdatePort(client, updates, resps), updates)

\* makeAuthenticatedRequest, called as the managers call it
DoRequest(method, path, data, resp) ==
    /\ client.exists
    /\ sent' = makeAuthenticatedRequest(client, method, path, data, resp).reqs
    /\ last' = [NoLast EXCEPT !.op = "makeAuthenticatedRequest", !.address = client.address,
                              !.err = makeAuthenticatedRequest(client, method, path, data, resp).err,
                              !.body = makeAuthenticatedRequest(client, method, path, data, resp).body,
                              !.method = method, !.data = data, !.answer = resp,
                              !.dataAfter = makeAuthenticatedRequest(client, method, path, data, resp).data]
    /\ UNCHANGED <<threads, mgr, tokens, files, client, oplog>>

\* a memory token manager that holds (token, model) for the address, and
\* the client NewClient makes with it
InitOps ==
    /\ mgr = "memory"
    /\ \E t \in OpsTokens, m \in OpsModels :
          /\ tokens = MemoryStoreToken(EmptyMap, ClientAddress, t, m)
          /\ client = NewClient(ClientAddress, FALSE,
                                StoreState("memory", tokens, EmptyMap), DefaultEnv).client
    /\ files = EmptyMap
    /\ sent = <<>>
    /\ last = NoLast
    /\ oplog = <<>>
    /\ threads = NoThreads

AnyResponse == IF client.exists /\ IsAuthenticated(client) THEN ApiResponses ELSE {RespBlank}

\* what a device whose session has expired answers: a redirect to the login
\* page, or the login page
LoginPages == {RespRedirect, RespLogin305, RespLogin316}

\* what the device may answer a request of the client
AnyAnswer ==
    IF client.exists /\ IsAuthenticated(client) THEN ApiResponses \cup LoginPages ELSE {RespBlank}

NextOps ==
    \/ \E resp \in AnyResponse : DoPOEGetStatus(resp)
    \/ \E resp \in AnyResponse : DoPOEGetSettings(resp)
    \/ \E updates \in SeqsUpTo(POEUpdates, MaxUpdates) :
          \E resps \in ResponsesTo(client, Len(updates)) : DoPOEUpdatePort(updates, resps)
    \/ \E portIDs \in SeqsUpTo(CyclePorts, MaxUpdates) :
          \E resps \in ResponsesTo(client, Len(portIDs)) : DoPOECyclePower(portIDs, resps)
    \/ \E resp \in AnyResponse : DoPortGetSettings(resp)
    \/ \E updates \in SeqsUpTo(PortUpdates, MaxUpdates) :
          \E resps \in ResponsesTo(client, Len(updates)) : DoPortUpdatePort(updates, resps)
    \/ \E method \in {"GET", "POST"}, data \in RequestForms, resp \in AnyAnswer :
          DoRequest(method, "/x.cgi", data, resp)

SpecOps == InitOps /\ [][NextOps]_vars

-----------------------------------------------------------------------------
(* One client used by two goroutines: one sends requests, the other calls   *)
(* Login and Logout.  Client has no lock; c.token is a string, two words    *)
(* (data pointer, length) that an assignment writes one after the other.    *)

\* a string header: the bytes the pointer leads to (none for nil), the length
StringHeader(data, len) == [data |-> data, len |-> len]
HeaderOf(str) == StringHeader(str, Len(str))

\* a byte read past the end of the bytes a pointer leads to
Garbage == "?"

\* the string a header yields when its bytes are read: "fault" for a nil
\* pointer with a non-zero length
Bytes(h) ==
    IF h.len <= Len(h.data) THEN [fault |-> FALSE, str |-> SubSeq(h.data, 1, h.len)]
    ELSE IF h.data = EmptyStr THEN [fault |-> TRUE, str |-> EmptyStr]
    ELSE [fault |-> FALSE,
          str |-> h.data \o [i \in 1..(h.len - Len(h.data)) |-> Garbage]]

\* goroutine `req` is idle or between the test and the use of c.token;
\* goroutine `wr` is idle or between the two words of an assignment to
\* c.token; creds: the tokens that have been c.token
ReqIdle == [pc |-> "idle", method |-> "none", path |-> EmptyStr, data |-> NilValues]
WrIdle == [pc |-> "idle", op |-> "none", r |-> NoClient]
ClientThreads(req, wr, creds) == [req |-> req, wr |-> wr, creds |-> creds]

\* what a read of c.token can yield: the token, or during an assignment the
\* new pointer with the old length or the old pointer with the new length
TokenHeaders ==
    IF threads.wr.pc = "idle" THEN {HeaderOf(client.token)}
    ELSE {StringHeader(threads.wr.r.client.token, Len(client.token)),
          StringHeader(client.token, Len(threads.wr.r.client.token))}

\* Login up to the assignment c.token = token
ConcLoginBegin(password, env) ==
    /\ threads.req.pc # "panic"
    /\ threads.wr.pc = "idle"
    /\ LET r == Login(client, St, password, env)
       IN  /\ threads' = IF r.err = NoError
                         THEN [threads EXCEPT !.wr = [pc |-> "writing", op |-> "Login", r |-> r]]
                         ELSE threads
           /\ last' = [NoLast EXCEPT !.op = "Login", !.address = client.address,
                                     !.password = password, !.err = r.err]
    /\ UNCHANGED <<mgr, tokens, files, client, sent, oplog>>

\* Logout up to the assignment c.token = ""
ConcLogoutBegin ==
    /\ threads.req.pc # "panic"
    /\ threads.wr.pc = "idle"
    /\ threads' = [threads EXCEPT !.wr = [pc |-> "writing", op |-> "Logout",
                                          r |-> Logout(client, St, DefaultIO)]]
    /\ last' = [NoLast EXCEPT !.op = "Logout", !.address = client.address]
    /\ UNCHANGED <<mgr, tokens, files, client, sent, oplog>>

\* the second word of the assignment, and what Login or Logout does after it
ConcWriteEnd ==
    /\ threads.req.pc # "panic"
    /\ threads.wr.pc = "writing"
    /\ client' = threads.wr.r.client
    /\ tokens' = threads.wr.r.st.tokens
    /\ files' = threads.wr.r.st.files
    /\ threads' = [threads EXCEPT !.wr = WrIdle,
                                  !.creds = @ \cup {threads.wr.r.client.token}]
    /\ last' = [NoLast EXCEPT !.op = threads.wr.op, !.address = client.address,
                              !.saved = TRUE]
    /\ UNCHANGED <<mgr, sent, oplog>>

\* makeAuthenticatedRequest: the test !c.IsAuthenticated()
ConcRequestTest(method, path, data) ==
    /\ threads.req.pc = "idle"
    /\ \E h \in TokenHeaders :
          IF h.len = 0
          THEN /\ threads' = threads
               /\ sent' = <<>>
               /\ last' = [NoLast EXCEPT !.op = "makeAuthenticatedRequest",
                                         !.address = client.address, !.method = method,
                                         !.data = data, !.err = ErrNotAuthenticated]
          ELSE /\ threads' = [threads EXCEPT !.req = [pc |-> "tested", method |-> method,
                                                      path |-> path, data |-> data]]
               /\ UNCHANGED <<sent, last>>
    /\ UNCHANGED <<mgr, tokens, files, client, oplog>>

\* makeAuthenticatedRequest: c.token is read again, formatted into the
\* header or the form, and the request is sent
ConcRequestSend(resp) ==
    /\ threads.req.pc = "tested"
    /\ \E h \in TokenHeaders :
          IF Bytes(h).fault
          THEN /\ threads' = [threads EXCEPT !.req = [@ EXCEPT !.pc = "panic"]]
               /\ sent' = <<>>
               /\ last' = [NoLast EXCEPT !.op = "panic", !.address = client.address]
          ELSE LET r == authenticatedRequest([client EXCEPT !.token = Bytes(h).str],
                                             threads.req.method, threads.req.path,
                                             threads.req.data, resp)
               IN  /\ threads' = [threads EXCEPT !.req = ReqIdle]
                   /\ sent' = r.reqs
                   /\ last' = [NoLast EXCEPT !.op = "makeAuthenticatedRequest",
                                             !.address = client.address,
                                             !.method = threads.req.method,
                                             !.data = threads.req.data,
                                             !.token = Bytes(h).str, !.err = r.err]
    /\ UNCHANGED <<mgr, tokens, files, client, oplog>>

\* the tokens and models of the client the goroutines share
ConcTokens == {EmptyStr, <<"a", "b", "c">>}
ConcModels == {ModelGS305EP, ModelGS316EPP}

InitConc ==
    /\ mgr = "memory"
    /\ \E t \in ConcTokens, m \in ConcModels :
          /\ tokens = IF t = EmptyStr THEN EmptyMap
                      ELSE MemoryStoreToken(EmptyMap, ClientAddress, t, m)
          /\ client = [NewClientStruct(ClientAddress, FALSE) EXCEPT !.token = t, !.model = m]
          /\ threads = ClientThreads(ReqIdle, WrIdle, {t})
    /\ files = EmptyMap
    /\ sent = <<>>
    /\ last = NoLast
    /\ oplog = <<>>

NextConc ==
    \/ \E env \in LoginEnvs(client, <<"p">>, DefaultEnv) : ConcLoginBegin(<<"p">>, env)
    \/ ConcLogoutBegin
    \/ ConcWriteEnd
    \/ \E m \in {"GET", "POST"}, d \in RequestForms : ConcRequestTest(m, <<"/", "x">>, d)
    \/ \E resp \in ApiResponses : ConcRequestSend(resp)

SpecConc == InitConc /\ [][NextConc]_vars

-----------------------------------------------------------------------------
(* One FileTokenManager used by several goroutines.  os.WriteFile opens the *)
(* file with O_WRONLY|O_CREATE|O_TRUNC and then writes; os.ReadFile and     *)
(* os.Remove of another goroutine can come between the two.                 *)

\* the (token, model) pairs stored: their file contents differ in length
FileCredentials ==
    { [token |-> <<"b">>, model |-> ModelGS305EP],
      [token |-> <<"c", "d">>, model |-> ModelGS316EPP] }

\* the goroutines that store
Writers == {1, 2}

\* the StoreToken calls a run makes at most
MaxStores == 2

\* write(2) of `data` at offset 0 of a file that holds `old`
WriteAt(old, data) == data \o SubSeq(old, Len(data) + 1, Len(old))

WriterIdle ==
    [pc |-> "idle", address |-> EmptyStr, token |-> EmptyStr, model |-> EmptyStr,
     unlinked |-> FALSE]

\* StoreToken up to the open of os.WriteFile: the file is there and empty
FsStoreOpen(g, address, cred) ==
    /\ threads[g].pc = "idle"
    /\ Len(oplog) < MaxStores
    /\ files' = MapSet(files, getTokenFilename(address), EmptyStr)
    /\ threads' = [threads EXCEPT ![g] = [pc |-> "open", address |-> address,
                                          token |-> cred.token, model |-> cred.model,
                                          unlinked |-> FALSE]]
    /\ oplog' = Append(oplog, LogEntry("StoreToken", address, cred.token, cred.model))
    /\ last' = [NoLast EXCEPT !.op = "open", !.address = address, !.token = cred.token,
                              !.model = cred.model,
                              !.had = (getTokenFilename(address) \in DOMAIN files)]
    /\ UNCHANGED <<mgr, tokens, client, sent>>

\* the write and the close of os.WriteFile; StoreToken returns nil.  A file
\* that was removed since the open is written to without a name.
FsStoreWrite(g) ==
    /\ threads[g].pc = "open"
    /\ LET name == getTokenFilename(threads[g].address)
           content == TokenFileContent(threads[g].token, threads[g].model)
       IN  files' = IF threads[g].unlinked THEN files
                    ELSE MapSet(files, name, WriteAt(files[name], content))
    /\ threads' = [threads EXCEPT ![g] = WriterIdle]
    /\ last' = [NoLast EXCEPT !.op = "StoreToken", !.address = threads[g].address,
                              !.token = threads[g].token, !.model = threads[g].model]
    /\ UNCHANGED <<mgr, tokens, client, sent, oplog>>

\* GetToken of a goroutine that is in no other call
FsGet(address) ==
    /\ last' = [NoLast EXCEPT !.op = "GetToken", !.address = address,
                              !.res = FileGetToken(files, address, "ok"),
                              !.err = FileGetToken(files, address, "ok").err,
                              !.had = (getTokenFilename(address) \in DOMAIN files)]
    /\ UNCHANGED <<threads, mgr, tokens, files, client, sent, oplog>>

\* DeleteToken of a goroutine that is in no other call
FsDelete(address) ==
    /\ getTokenFilename(address) \in DOMAIN files
    /\ files' = FileDeleteToken(files, address, "ok").fs
    /\ threads' = [g \in Writers |->
                     IF threads[g].pc = "open"
                        /\ getTokenFilename(threads[g].address) = getTokenFilename(address)
                     THEN [threads[g] EXCEPT !.unlinked = TRUE]
                     ELSE threads[g]]
    /\ last' = [NoLast EXCEPT !.op = "DeleteToken", !.address = address,
                              !.err = FileDeleteToken(files, address, "ok").err,
                              !.had = TRUE]
    /\ UNCHANGED <<mgr, tokens, client, sent, oplog>>

InitFiles ==
    /\ mgr = "file"
    /\ tokens = EmptyMap
    /\ files = EmptyMap
    /\ client = NoClient
    /\ sent = <<>>
    /\ last = NoLast
    /\ oplog = <<>>
    /\ threads = [g \in Writers |-> WriterIdle]

NextFiles ==
    \/ \E g \in Writers, a \in FileAddresses, cred \in FileCredentials : FsStoreOpen(g, a, cred)
    \/ \E g \in Writers : FsStoreWrite(g)
    \/ \E a \in FileAddresses : FsGet(a)
    \/ \E a \in FileAddresses : FsDelete(a)

SpecFiles == InitFiles /\ [][NextFiles]_vars

-----------------------------------------------------------------------------
(* The functions on Model values, applied to strings                       *)

SupportedModels ==
    {ModelGS305EP, ModelGS305EPP, ModelGS308EP, ModelGS308EPP, ModelGS316EP, ModelGS316EPP,
     ModelGS30xEPx}

\* Model values a caller can hand over: the names, their beginnings and
\* ends (the empty string among them), names with one more character, and
\* names in lower case where they have letters of the hash alphabet
ModelStrings ==
    UNION { {SubSeq(m, 1, k) : k \in 0..Len(m)} \cup {SubSeq(m, k, Len(m)) : k \in 1..Len(m)}
            \cup {m \o <<c>> : c \in {"P", "x", " "}} \cup {<<" ">> \o m}
            : m \in SupportedModels }
    \cup {ModelUnknown, <<"g", "s", "3", "1", "6", "e", "p">>}

\* what the functions return for a model
Classified(model) ==
    [ is30x     |-> IsModel30x(model),
      is316     |-> IsModel316(model),
      supported |-> IsSupported(model),
      auth      |-> GetAuthenticationType(model) ]

Classify ==
    /\ last.op = "none"
    /\ last' = [last EXCEPT !.op = "Model", !.res = Classified(last.model)]
    /\ UNCHANGED <<threads, mgr, tokens, files, client, sent, oplog>>

InitModel ==
    /\ mgr = "memory"
    /\ tokens = EmptyMap
    /\ files = EmptyMap
    /\ client = NoClient
    /\ sent = <<>>
    /\ \E m \in ModelStrings : last = [NoLast EXCEPT !.model = m]
    /\ oplog = <<>>
    /\ threads = NoThreads

NextModel == Classify

SpecModel == InitModel /\ [][NextModel]_vars

-----------------------------------------------------------------------------
(* Login of a GS316 client on a device whose answer embeds the token       *)

\* <input type="hidden" name="NAME" value="TOK"/>
HiddenField(name, tok) ==
    <<"<", "i", "n", "p", "u", "t", " ", "t", "y", "p", "e", "=", "\"", "h", "i", "d", "d", "e", "n", "\"", " ", "n", "a", "m", "e", "=", "\"">>
    \o name \o <<"\"", " ", "v", "a", "l", "u", "e", "=", "\"">> \o tok \o <<"\"", "/", ">">>

\* var NAME = "TOK";
ScriptAssign(name, tok) ==
    <<"v", "a", "r", " ">> \o name \o <<" ", "=", " ", "\"">> \o tok \o <<"\"", ";">>

\* {"NAME": "TOK"}
ScriptProperty(name, tok) ==
    <<"{", "\"">> \o name \o <<"\"", ":", " ", "\"">> \o tok \o <<"\"", "}">>

\* the name of the field in the letter cases a page may use
GambitNames == {<<"G", "a", "m", "b", "i", "t">>, <<"g", "a", "m", "b", "i", "t">>, <<"G", "A", "M", "B", "I", "T">>}

\* tokens a device may issue: opaque text, hexadecimal text, hexadecimal
\* text followed by other text
GambitTokens == {<<"t", "o", "k", "2">>, <<"a", "b", "1", "2">>, <<"a", "1", "x">>}

\* the bodies that embed a token, each with the token it embeds
Embeddings ==
    {[text |-> HiddenField(n, t), token |-> t] : n \in GambitNames, t \in GambitTokens}
    \cup {[text |-> ScriptAssign(n, t), token |-> t] : n \in GambitNames, t \in GambitTokens}
    \cup {[text |-> ScriptProperty(n, t), token |-> t] : n \in GambitNames, t \in GambitTokens}

EmbeddedToken(text) == (CHOOSE e \in Embeddings : e.text = text).token

\* the login page of the device carries the seed; the POST is answered
\* with one of the bodies
GambitEnvs ==
    {[DefaultEnv EXCEPT !.seed = RespLogin316,
                        !.post = Response(TRUE, TRUE, EmptyStr, FALSE, EmptyStr, e.text)] :
        e \in Embeddings}

\* the client NewClient returns for a device whose root page names GS316EPP
InitGambit ==
    /\ mgr = "memory"
    /\ tokens = EmptyMap
    /\ files = EmptyMap
    /\ client = NewClient(ClientAddress, FALSE, StoreState("memory", EmptyMap, EmptyMap),
                          [DefaultEnv EXCEPT !.root = RespLogin316]).client
    /\ sent = <<>>
    /\ last = NoLast
    /\ oplog = <<>>
    /\ threads = NoThreads

NextGambit ==
    \/ \E env \in GambitEnvs : ObsLogin(<<"p">>, env)
    \/ \E method \in {"GET", "POST"}, data \in RequestForms, resp \in ApiResponses :
          DoRequest(method, "/x.cgi", data, resp)

SpecGambit == InitGambit /\ [][NextGambit]_vars

-----------------------------------------------------------------------------
(* DetectFromHTML applied to page fragments                                *)

RedirectToLogin == <<"R", "e", "d", "i", "r", "e", "c", "t", " ", "t", "o", " ", "L", "o", "g", "i", "n">>
RedirectMarker  == <<"r", "e", "d", "i", "r", "e", "c", "t">>

\* what a page may hold: a model name, a redirect marker, the placeholder,
\* the beginning of a model name, a capitalised word that is no marker,
\* nothing
FragmentPieces ==
    {ModelGS305EP, ModelGS305EPP, ModelGS308EP, ModelGS308EPP, ModelGS316EP, ModelGS316EPP,
     ModelGS30xEPx, RedirectToLogin, RedirectMarker, <<"R", "e", "d", "i", "r", "e", "c", "t">>, <<"G", "S", "3", "1", "6">>, EmptyStr}

\* pages of two pieces
Fragments == {<<"<">> \o a \o <<" ">> \o b \o <<">">> : a \in FragmentPieces, b \in FragmentPieces}

Detect ==
    /\ last.op = "none"
    /\ last' = [last EXCEPT !.op = "DetectFromHTML",
                            !.res = [html |-> last.res.html,
                                     model |-> DetectFromHTML(last.res.html)]]
    /\ UNCHANGED <<threads, mgr, tokens, files, client, sent, oplog>>

InitDetect ==
    /\ mgr = "memory"
    /\ tokens = EmptyMap
    /\ files = EmptyMap
    /\ client = NoClient
    /\ sent = <<>>
    /\ \E f \in Fragments : last = [NoLast EXCEPT !.res = [html |-> f, model |-> EmptyStr]]
    /\ oplog = <<>>
    /\ threads = NoThreads

NextDetect == Detect

SpecDetect == InitDetect /\ [][NextDetect]_vars

-----------------------------------------------------------------------------
(* specialMerge of the library and of the command line program.  A string   *)
(* is its bytes; "c3" and "a9" stand for the two bytes of a two-byte UTF-8  *)
(* character, every other byte is an ASCII character.                      *)

LeadByte == "c3"
ContinuationByte == "a9"

\* the encoding of U+FFFD, what a byte that starts no character decodes to
RuneError == <<"ef", "bf", "bd">>

\* []rune(s), each rune kept as the bytes string(rune) writes
RECURSIVE Runes(_)
Runes(s) ==
    IF s = <<>> THEN <<>>
    ELSE IF s[1] = LeadByte /\ Len(s) >= 2 /\ s[2] = ContinuationByte
    THEN <<SubSeq(s, 1, 2)>> \o Runes(SubSeq(s, 3, Len(s)))
    ELSE IF s[1] \in {LeadByte, ContinuationByte}
    THEN <<RuneError>> \o Runes(Tail(s))
    ELSE <<(<<s[1]>>)>> \o Runes(Tail(s))

\* the loop of the command line program's specialMerge from index i on:
\* the bounds are byte lengths, the elements are runes; an index past the
\* runes panics
RECURSIVE CliMergeFrom(_, _, _)
CliMergeFrom(password, seedValue, i) ==
    LET maxLen == IF Len(seedValue) > Len(password) THEN Len(seedValue) ELSE Len(password)
        p      == i < Len(password)
        s      == i < Len(seedValue)
        rest   == CliMergeFrom(password, seedValue, i + 1)
    IN  IF i >= maxLen THEN [panic |-> FALSE, str |-> <<>>]
        ELSE IF (p /\ i >= Len(Runes(password))) \/ (s /\ i >= Len(Runes(seedValue)))
        THEN [panic |-> TRUE, str |-> <<>>]
        ELSE [panic |-> rest.panic,
              str   |-> IF rest.panic THEN <<>>
                        ELSE (IF p THEN Runes(password)[i + 1] ELSE <<>>)
                             \o (IF s THEN Runes(seedValue)[i + 1] ELSE <<>>)
                             \o rest.str]

\* specialMerge of the command line program
CliSpecialMerge(password, seedValue) == CliMergeFrom(password, seedValue, 0)

\* the longest password and seed that are tried, in bytes
MergeLen == 2

MergeBytes == {"a", "1", LeadByte, ContinuationByte}

\* the passwords and seeds: every byte string up to the length, and two
\* pairs of longer ones
MergeInputs ==
    (SeqsUpTo(MergeBytes, MergeLen) \X SeqsUpTo(MergeBytes, MergeLen))
    \cup {<< <<"a", "b">>, <<"1", "2", "3", "4">> >>, << <<"a", "b", "c", "d">>, <<"1">> >>}

Merge ==
    /\ last.op = "none"
    /\ last' = [last EXCEPT !.op = "specialMerge",
                            !.res = [password  |-> last.res.password,
                                     seedValue |-> last.res.seedValue,
                                     lib |-> specialMerge(last.res.password, last.res.seedValue),
                                     cli |-> CliSpecialMerge(last.res.password, last.res.seedValue)]]
    /\ UNCHANGED <<threads, mgr, tokens, files, client, sent, oplog>>

InitMerge ==
    /\ mgr = "memory"
    /\ tokens = EmptyMap
    /\ files = EmptyMap
    /\ client = NoClient
    /\ sent = <<>>
    /\ \E in \in MergeInputs :
          last = [NoLast EXCEPT !.res = [password |-> in[1], seedValue |-> in[2],
                                         lib |-> <<>>, cli |-> [panic |-> FALSE, str |-> <<>>]]]
    /\ oplog = <<>>
    /\ threads = NoThreads

NextMerge == Merge

SpecMerge == InitMerge /\ [][NextMerge]_vars

-----------------------------------------------------------------------------
(* The switch-test program: main, runTests, the test operations and the    *)
(* state manager, with the goroutine that waits for SIGINT/SIGTERM.  The   *)
(* program's state is in threads; sent holds the requests that were written *)
(* to the switch.  A library call made with a cancelled context returns an *)
(* error before anything is written.                                       *)

\* the most POE ports and ethernet ports of the switch
SwitchPorts == 1

\* the settings of a port as CaptureInitialState reads them, as the update
\* RestoreState builds from them
InitialPoeSetting(portID) ==
    [NoUpdate(portID) EXCEPT !.Enabled = SomeBool(TRUE),
                             !.Mode = Some(<<"a", "t">>),
                             !.Priority = Some(<<"l", "o", "w">>),
                             !.PowerLimitType = Some(<<"u", "s", "e", "r">>),
                             !.PowerLimitW = SomeNumber(15)]

InitialPortSetting(portID) ==
    [NoPortUpdate(portID) EXCEPT !.Name = Some(<<"x">>),
                                 !.Speed = Some(<<"a", "u", "t", "o">>),
                                 !.IngressLimit = Some(<<"0">>),
                                 !.EgressLimit = Some(<<"0">>),
                                 !.FlowControl = SomeBool(FALSE)]

\* POEManager.EnablePort, DisablePort
EnableUpdate(portID, enabled) == [NoUpdate(portID) EXCEPT !.Enabled = SomeBool(enabled)]

\* the update of TestOperations.testPortBandwidth
LimitUpdate(portID, limit) ==
    [NoPortUpdate(portID) EXCEPT !.IngressLimit = Some(limit), !.EgressLimit = Some(limit)]

\* the program after parseFlags, signal.Notify and the start of the goroutine
ProgramStart(dryRun, skipPOE, skipBandwidth, skipLEDs, ports) ==
    [ pc |-> "connect",          \* where main is
      sub |-> "start",           \* the step within the phase
      i |-> 0,                   \* the port of the loop
      dryRun |-> dryRun, skipPOE |-> skipPOE,
      skipBandwidth |-> skipBandwidth, skipLEDs |-> skipLEDs,
      ports |-> ports,           \* the ports the switch has
      stateManager |-> FALSE,    \* testCtx.StateManager # nil
      captured |-> FALSE,        \* sm.initialState # nil
      overallSuccess |-> TRUE,
      errors |-> FALSE,          \* RestoreState collected an error
      exitCode |-> -1,           \* what runTests returned
      sig |-> "waiting",         \* the goroutine: waiting, flagged, done
      interrupted |-> FALSE,     \* testCtx.Interrupted
      cancelled |-> FALSE,       \* cancel() was called
      sigCaptured |-> FALSE,     \* the state was captured when the signal came
      seen |-> FALSE,            \* main has observed the cancelled context
      exit |-> -1 ]              \* the exit code of the process

\* a library call under the program's context
UnderContext(failed, answered) ==
    IF threads.cancelled THEN ManagerResult(failed.err, <<>>) ELSE answered

\* what a read of testCtx.Interrupted by main may yield: the goroutine's
\* write is ordered before the read only through the cancelled context
ReadsInterrupted ==
    IF threads.seen THEN {TRUE}
    ELSE IF threads.interrupted THEN {TRUE, FALSE}
    ELSE {FALSE}

\* main moves on to program state p after writing the requests
Goes(p, reqs) ==
    /\ threads' = p
    /\ sent' = sent \o reqs
    /\ UNCHANGED <<mgr, tokens, files, client, last, oplog>>

\* the program state after a library call or a test of ctx.Done()
Called == [threads EXCEPT !.seen = @ \/ threads.cancelled]

\* runTests returns code
Returns(p, code) == [p EXCEPT !.pc = "cleanup", !.sub = "start", !.exitCode = code]

\* createClient: the client finds its token in the token manager, or fails
SwConnect(ok) ==
    /\ threads.pc = "connect"
    /\ client' = IF ok
                 THEN NewClient(ClientAddress, FALSE,
                                StoreState("memory",
                                           MemoryStoreToken(EmptyMap, ClientAddress, <<"a">>,
                                                            ModelGS305EP),
                                           EmptyMap), DefaultEnv).client
                 ELSE NoClient
    /\ threads' = IF ok THEN [threads EXCEPT !.pc = "capture", !.sub = "status"]
                  ELSE Returns(threads, 3)
    /\ UNCHANGED <<mgr, tokens, files, sent, last, oplog>>

\* StateManager.CaptureInitialState, one library call at a time
SwCapture(resp) ==
    /\ threads.pc = "capture"
    /\ LET r == CASE threads.sub = "status" ->
                       UnderContext(POEGetStatus(client, RespFailed), POEGetStatus(client, resp))
                  [] threads.sub = "settings" ->
                       UnderContext(POEGetSettings(client, RespFailed),
                                    POEGetSettings(client, resp))
                  [] OTHER ->
                       UnderContext(PortGetSettings(client, RespFailed),
                                    PortGetSettings(client, resp))
           p == [Called EXCEPT !.stateManager = TRUE]
       IN  Goes(IF r.err # NoError THEN Returns(p, 2)
                ELSE IF threads.sub = "status" THEN [p EXCEPT !.sub = "settings"]
                ELSE IF threads.sub = "settings" THEN [p EXCEPT !.sub = "ports"]
                ELSE [p EXCEPT !.captured = TRUE, !.pc = "poe", !.sub = "start"],
                r.reqs)

\* the end of a test in runTests: if testCtx.Interrupted { return 5 }
AfterTest(p, next, interrupted) ==
    IF interrupted THEN Returns(p, 5) ELSE [p EXCEPT !.pc = next, !.sub = "start"]

\* the end of one port of a test: the delay, then the test of ctx.Done()
AfterPort(p, success) ==
    [p EXCEPT !.sub = "delay", !.overallSuccess = @ /\ success]

\* TestOperations.RunPOECyclingTest and testPOEPortCycle.  delivering: the
\* status the switch reports is "Delivering Power", otherwise "Disabled"
SwPoeTest(resp, delivering, interrupted) ==
    /\ threads.pc = "poe"
    /\ interrupted \in ReadsInterrupted
    /\ LET status == UnderContext(POEGetStatus(client, RespFailed), POEGetStatus(client, resp))
           enable(on) ==
               UnderContext(POEUpdatePort(client, <<EnableUpdate(threads.i, on)>>, <<RespFailed>>),
                            POEUpdatePort(client, <<EnableUpdate(threads.i, on)>>, <<resp>>))
       IN  CASE threads.sub = "start" ->
                  IF threads.skipPOE
                  THEN Goes([threads EXCEPT !.pc = "bandwidth", !.sub = "start"], <<>>)
                  ELSE IF threads.dryRun
                  THEN Goes([threads EXCEPT !.sub = "check"], <<>>)
                  ELSE Goes(IF status.err # NoError
                            THEN [Called EXCEPT !.sub = "check", !.overallSuccess = FALSE]
                            ELSE IF threads.ports = 0 THEN [Called EXCEPT !.sub = "check"]
                            ELSE [Called EXCEPT !.sub = "disable", !.i = 1],
                            status.reqs)
             [] threads.sub = "disable" ->
                  Goes(IF enable(FALSE).err # NoError THEN AfterPort(Called, FALSE)
                       ELSE [Called EXCEPT !.sub = "verifyOff"],
                       enable(FALSE).reqs)
             [] threads.sub = "verifyOff" ->
                  Goes(IF status.err # NoError \/ delivering THEN AfterPort(Called, FALSE)
                       ELSE [Called EXCEPT !.sub = "enable"],
                       status.reqs)
             [] threads.sub = "enable" ->
                  Goes(IF enable(TRUE).err # NoError THEN AfterPort(Called, FALSE)
                       ELSE [Called EXCEPT !.sub = "verifyOn"],
                       enable(TRUE).reqs)
             [] threads.sub = "verifyOn" ->
                  Goes(AfterPort(Called, status.err = NoError /\ delivering), status.reqs)
             [] threads.sub = "delay" ->
                  Goes(IF threads.cancelled
                       THEN [Called EXCEPT !.sub = "check", !.overallSuccess = FALSE]
                       ELSE IF threads.i < threads.ports
                       THEN [Called EXCEPT !.sub = "disable", !.i = @ + 1]
                       ELSE [Called EXCEPT !.sub = "check"],
                       <<>>)
             [] OTHER ->
                  Goes(AfterTest(threads, "bandwidth", interrupted), <<>>)

\* TestOperations.RunBandwidthTest and testPortBandwidth.  matches: the
\* settings the switch reports are the ones the test expects
SwBandwidthTest(resp, matches, interrupted) ==
    /\ threads.pc = "bandwidth"
    /\ interrupted \in ReadsInterrupted
    /\ LET settings == UnderContext(PortGetSettings(client, RespFailed),
                                    PortGetSettings(client, resp))
           limit(to) ==
               UnderContext(PortUpdatePort(client, <<LimitUpdate(threads.i, to)>>, <<RespFailed>>),
                            PortUpdatePort(client, <<LimitUpdate(threads.i, to)>>, <<resp>>))
       IN  CASE threads.sub = "start" ->
                  IF threads.skipBandwidth
                  THEN Goes([threads EXCEPT !.pc = "leds", !.sub = "start"], <<>>)
                  ELSE IF threads.dryRun \/ threads.ports = 0
                  THEN Goes([threads EXCEPT !.sub = "check"], <<>>)
                  ELSE Goes([threads EXCEPT !.sub = "set", !.i = 1], <<>>)
             [] threads.sub = "set" ->
                  Goes(IF limit(<<"1">>).err # NoError THEN AfterPort(Called, FALSE)
                       ELSE [Called EXCEPT !.sub = "verifySet"],
                       limit(<<"1">>).reqs)
             [] threads.sub = "verifySet" ->
                  Goes(IF settings.err # NoError \/ ~matches THEN AfterPort(Called, FALSE)
                       ELSE [Called EXCEPT !.sub = "restore"],
                       settings.reqs)
             [] threads.sub = "restore" ->
                  Goes(IF limit(<<"0">>).err # NoError THEN AfterPort(Called, FALSE)
                       ELSE [Called EXCEPT !.sub = "verifyRestore"],
                       limit(<<"0">>).reqs)
             [] threads.sub = "verifyRestore" ->
                  Goes(AfterPort(Called, settings.err = NoError /\ matches), settings.reqs)
             [] threads.sub = "delay" ->
                  Goes(IF threads.cancelled
                       THEN [Called EXCEPT !.sub = "check", !.overallSuccess = FALSE]
                       ELSE IF threads.i < threads.ports
                       THEN [Called EXCEPT !.sub = "set", !.i = @ + 1]
                       ELSE [Called EXCEPT !.sub = "check"],
                       <<>>)
             [] OTHER ->
                  Goes(AfterTest(threads, "leds", interrupted), <<>>)

\* TestOperations.RunLEDTest sends nothing
SwLedTest(interrupted) ==
    /\ threads.pc = "leds"
    /\ interrupted \in ReadsInterrupted
    /\ Goes(IF threads.skipLEDs THEN [threads EXCEPT !.pc = "validate", !.sub = "start"]
            ELSE AfterTest(threads, "validate", interrupted),
            <<>>)

\* StateManager.ValidateStateRestoration and the end of runTests.  matches:
\* the settings the switch reports are the captured ones
SwValidate(resp, matches) ==
    /\ threads.pc = "validate"
    /\ LET poe   == UnderContext(POEGetSettings(client, RespFailed), POEGetSettings(client, resp))
           ports == UnderContext(PortGetSettings(client, RespFailed),
                                 PortGetSettings(client, resp))
       IN  IF threads.sub = "start"
           THEN Goes(IF poe.err # NoError THEN Returns(Called, 1)
                     ELSE [Called EXCEPT !.sub = "ports"],
                     poe.reqs)
           ELSE Goes(Returns(Called, IF ports.err = NoError /\ matches /\ threads.overallSuccess
                                     THEN 0 ELSE 1),
                     ports.reqs)

\* main after runTests: StateManager.RestoreState, one UpdatePort at a time
SwRestore(resp) ==
    /\ threads.pc = "cleanup"
    /\ LET poe   == UnderContext(
                       POEUpdatePort(client, <<InitialPoeSetting(threads.i)>>, <<RespFailed>>),
                       POEUpdatePort(client, <<InitialPoeSetting(threads.i)>>, <<resp>>))
           ports == UnderContext(
                       PortUpdatePort(client, <<InitialPortSetting(threads.i)>>, <<RespFailed>>),
                       PortUpdatePort(client, <<InitialPortSetting(threads.i)>>, <<resp>>))
           failed(p) == [p EXCEPT !.pc = "final",
                                  !.exitCode = IF @ = 0 THEN 2 ELSE @]
       IN  CASE threads.sub = "start" ->
                  Goes(IF ~threads.stateManager THEN [threads EXCEPT !.pc = "final"]
                       ELSE IF ~threads.captured THEN failed(threads)
                       ELSE [threads EXCEPT !.sub = "poe", !.i = 1, !.errors = FALSE],
                       <<>>)
             [] threads.sub = "poe" ->
                  IF threads.i > threads.ports
                  THEN Goes([threads EXCEPT !.sub = "ports", !.i = 1], <<>>)
                  ELSE Goes([Called EXCEPT !.i = @ + 1, !.errors = @ \/ poe.err # NoError],
                            poe.reqs)
             [] OTHER ->
                  IF threads.i > threads.ports
                  THEN Goes(IF threads.errors THEN failed(threads)
                            ELSE [threads EXCEPT !.pc = "final"],
                            <<>>)
                  ELSE Goes([Called EXCEPT !.i = @ + 1, !.errors = @ \/ ports.err # NoError],
                            ports.reqs)

\* the end of main: os.Exit(5) if testCtx.Interrupted, else os.Exit(exitCode)
SwExit(interrupted) ==
    /\ threads.pc = "final"
    /\ interrupted \in ReadsInterrupted
    /\ Goes([threads EXCEPT !.pc = "exited",
                            !.exit = IF interrupted THEN 5 ELSE threads.exitCode],
            <<>>)

\* the goroutine receives the signal: testCtx.Interrupted = true
SigFlag ==
    /\ threads.pc # "exited"
    /\ threads.sig = "waiting"
    /\ threads' = [threads EXCEPT !.sig = "flagged", !.interrupted = TRUE,
                                  !.sigCaptured = threads.captured]
    /\ UNCHANGED <<mgr, tokens, files, client, sent, last, oplog>>

\* the goroutine goes on: cancel()
SigCancel ==
    /\ threads.pc # "exited"
    /\ threads.sig = "flagged"
    /\ threads' = [threads EXCEPT !.sig = "done", !.cancelled = TRUE]
    /\ UNCHANGED <<mgr, tokens, files, client, sent, last, oplog>>

InitSwitchTest ==
    /\ mgr = "memory"
    /\ tokens = EmptyMap
    /\ files = EmptyMap
    /\ client = NoClient
    /\ sent = <<>>
    /\ last = NoLast
    /\ oplog = <<>>
    /\ \E dryRun \in BOOLEAN, skipPOE \in BOOLEAN, skipBandwidth \in BOOLEAN,
          skipLEDs \in BOOLEAN, ports \in 0..SwitchPorts :
          threads = ProgramStart(dryRun, skipPOE, skipBandwidth, skipLEDs, ports)

\* the answers of the switch to one request: an answer, or none
SwitchAnswers == {RespBlank, RespFailed}

NextSwitchTest ==
    \/ \E ok \in BOOLEAN : SwConnect(ok)
    \/ \E resp \in SwitchAnswers : SwCapture(resp)
    \/ \E resp \in SwitchAnswers, delivering \in BOOLEAN, interrupted \in BOOLEAN :
          SwPoeTest(resp, delivering, interrupted)
    \/ \E resp \in SwitchAnswers, matches \in BOOLEAN, interrupted \in BOOLEAN :
          SwBandwidthTest(resp, matches, interrupted)
    \/ \E interrupted \in BOOLEAN : SwLedTest(interrupted)
    \/ \E resp \in SwitchAnswers, matches \in BOOLEAN : SwValidate(resp, matches)
    \/ \E resp \in SwitchAnswers : SwRestore(resp)
    \/ \E interrupted \in BOOLEAN : SwExit(interrupted)
    \/ SigFlag
    \/ SigCancel

SpecSwitchTest == InitSwitchTest /\ [][NextSwitchTest]_vars

-----------------------------------------------------------------------------
(* The login command of the command line program                          *)

\* what getSessionToken returns when it finds no session cookie
FailedAttempt ==
    <<"n", "o", " ", "S", "I", "D", " ", "c", "o", "o", "k", "i", "e", " ",
      "f", "o", "u", "n", "d", " ", "i", "n", " ", "r", "e", "s", "p", "o", "n", "s", "e", " ",
      "h", "e", "a", "d", "e", "r">>

\* http.StatusOK
StatusOK == 200

\* the body length below which checkIsLoginRequired asks for a login
MinBodyLen == 10

LoginCgi     == <<"/", "l", "o", "g", "i", "n", ".", "c", "g", "i">>
WmiLogin     == <<"/", "w", "m", "i", "/", "l", "o", "g", "i", "n">>
RedirectHtml == <<"/", "r", "e", "d", "i", "r", "e", "c", "t", ".", "h", "t", "m", "l">>

checkIsLoginRequired(httpResponseBody) ==
    \/ Len(httpResponseBody) < MinBodyLen
    \/ Contains(httpResponseBody, LoginCgi)

\* strings.Split(s, ";")[0]
UpToSemicolon(s) == IF Index(s, ";") # -1 THEN SubSeq(s, 1, Index(s, ";")) ELSE s

\* getSessionToken: the value of the Set-Cookie header after "SID=" or
\* "gambitCookie=" up to the first ";"
getSessionToken(resp) ==
    LET sid    == <<"S", "I", "D", "=">>
        gambit == <<"g", "a", "m", "b", "i", "t", "C", "o", "o", "k", "i", "e", "=">>
    IN  IF HasPrefix(resp.cookie, sid)
        THEN UpToSemicolon(SubSeq(resp.cookie, Len(sid) + 1, Len(resp.cookie)))
        ELSE IF HasPrefix(resp.cookie, gambit)
        THEN UpToSemicolon(SubSeq(resp.cookie, Len(gambit) + 1, Len(resp.cookie)))
        ELSE FailedAttempt

\* what a step of the login command returns.  stored: the tokens it handed
\* to storeToken; panic: the process ended in a runtime panic
CliResult(err, reqs, stored) == [err |-> err, reqs |-> reqs, stored |-> stored, panic |-> FALSE]

\* getSeedValueFromSwitch and getSeedValueFromLoginHtml
getSeedValueFromSwitch(resp) ==
    IF ~resp.ok THEN [seed |-> EmptyStr, err |-> GoError("transport", NoError)]
    ELSE IF ~resp.readable THEN [seed |-> EmptyStr, err |-> GoError("io.ReadAll", NoError)]
    ELSE IF ~resp.hasRand
    THEN [seed |-> EmptyStr,
          err |-> GoError("random seed value not found in login.cgi response", NoError)]
    ELSE [seed |-> resp.rand, err |-> NoError]

\* doLogin.  resp, status: the device's response and its status code;
\* storeFails: storeToken returns an error
doLogin(encryptedPwd, resp, status, storeFails) ==
    LET post  == [step |-> "login", method |-> "POST", path |-> "/redirect.html",
                  query |-> <<>>, cookie |-> EmptyStr, hasBody |-> TRUE,
                  body |-> <<[key |-> "password", value |-> encryptedPwd]>>,
                  contentType |-> TRUE]
        token == getSessionToken(resp)
    IN  IF ~resp.ok THEN CliResult(GoError("transport", NoError), <<post>>, {})
        ELSE IF ~resp.readable THEN CliResult(GoError("io.ReadAll", NoError), <<post>>, {})
        ELSE IF token = FailedAttempt /\ status = StatusOK
        THEN CliResult(GoError("login request returned 200 OK, but response did not contain a session token",
                               NoError), <<post>>, {})
        ELSE IF storeFails
        THEN CliResult(GoError("storeToken", NoError), <<post>>, {})
        ELSE CliResult(NoError, <<post>>, {token})

\* LoginCommand.Run.  password: the password given or typed at the prompt
LoginCommandRun(password, seedResp, postResp, status, storeFails) ==
    LET get    == HTTPGet("seed", "/wmi/login", <<>>, EmptyStr)
        seed   == getSeedValueFromSwitch(seedResp)
        merged == CliSpecialMerge(password, seed.seed)
        login  == doLogin(<<"md5(">> \o merged.str \o <<")">>, postResp, status, storeFails)
    IN  IF Len(password) < 1 THEN CliResult(GoError("no password given", NoError), <<>>, {})
        ELSE IF seed.err # NoError THEN CliResult(seed.err, <<get>>, {})
        ELSE IF merged.panic
        THEN [CliResult(NoError, <<get>>, {}) EXCEPT !.panic = TRUE]
        ELSE [login EXCEPT !.reqs = <<get>> \o login.reqs]

\* the state of the command line program: the tokens storeToken was handed so
\* far, which stay from one command to the next, and of the last command
\* the tokens it handed to storeToken, the status code the device answered
\* with, and the body checkIsLoginRequired was asked about with its answer
CliStart ==
    [stored |-> {}, wrote |-> {}, status |-> 0, panic |-> FALSE,
     body |-> EmptyStr, required |-> FALSE]

\* the answer to an accepted login of a GS316 device
RespGambitCookie ==
    Response(TRUE, TRUE, <<"g", "a", "m", "b", "i", "t", "C", "o", "o", "k", "i", "e", "=", "b", ";">>,
             FALSE, EmptyStr, EmptyStr)
\* an answer with a cookie that is no session cookie
RespOtherCookie ==
    Response(TRUE, TRUE, <<"l", "a", "n", "g", "=", "e", "n">>, FALSE, EmptyStr, EmptyStr)

CliPasswords     == {EmptyStr, <<"p">>, <<LeadByte, ContinuationByte>>}
CliPostResponses ==
    {RespFailed, RespUnreadable, RespBlank, RespSid, RespSidEmpty, RespGambitCookie, RespOtherCookie}
CliStatuses      == {StatusOK, 302, 500}

\* the bodies checkIsLoginRequired is asked about: a filler of 0, 9 or 10
\* characters, then nothing or the path of an entry point
Filler(n) == [i \in 1..n |-> "x"]
CliBodies ==
    {Filler(n) \o link : n \in {0, MinBodyLen - 1, MinBodyLen},
                         link \in {EmptyStr, LoginCgi, WmiLogin, RedirectHtml,
                                   <<"/", "l", "o", "g", "i", "n">>}}

\* the login command runs to its end
CliLogin(password, seedResp, postResp, status, storeFails) ==
    LET r == LoginCommandRun(password, seedResp, postResp, status, storeFails)
    IN  /\ sent' = r.reqs
        /\ last' = [NoLast EXCEPT !.op = "login", !.err = r.err, !.password = password,
                                  !.env = [DefaultEnv EXCEPT !.seed = seedResp, !.post = postResp]]
        /\ threads' = [CliStart EXCEPT !.stored = threads.stored \cup r.stored,
                                       !.wrote = r.stored,
                                       !.status = status, !.panic = r.panic]
        /\ UNCHANGED <<mgr, tokens, files, client, oplog>>

\* a command looks at the body the device answered with
CliCheck(body) ==
    /\ sent' = <<>>
    /\ last' = [NoLast EXCEPT !.op = "checkIsLoginRequired"]
    /\ threads' = [CliStart EXCEPT !.stored = threads.stored, !.body = body,
                                   !.required = checkIsLoginRequired(body)]
    /\ UNCHANGED <<mgr, tokens, files, client, oplog>>

InitCli ==
    /\ mgr = "memory"
    /\ tokens = EmptyMap
    /\ files = EmptyMap
    /\ client = NoClient
    /\ sent = <<>>
    /\ last = NoLast
    /\ oplog = <<>>
    /\ threads = CliStart

NextCli ==
    \/ \E password \in CliPasswords, seedResp \in SeedResponses :
          \E postResp \in IF password # EmptyStr /\ getSeedValueFromSwitch(seedResp).err = NoError
                          THEN CliPostResponses ELSE {RespBlank} :
             \E status \in IF postResp.ok /\ postResp.readable /\ password # EmptyStr
                              /\ getSeedValueFromSwitch(seedResp).err = NoError
                           THEN CliStatuses ELSE {StatusOK} :
                \E storeFails \in IF doLogin(EmptyStr, postResp, status, TRUE).err
                                       = GoError("storeToken", NoError)
                                  THEN BOOLEAN ELSE {FALSE} :
                   CliLogin(password, seedResp, postResp, status, storeFails)
    \/ \E body \in CliBodies : CliCheck(body)

SpecCli == InitCli /\ [][NextCli]_vars

-----------------------------------------------------------------------------
(* Claims about the token managers                                         *)

\* the answer a map from address to (token, model) gives after the calls of
\* `log`: that of the newest call for the address, if it is a store
LatestCall(log, address) ==
    LET idx == {i \in 1..Len(log) : log[i].address = address}
    IN  IF idx = {} THEN 0 ELSE CHOOSE i \in idx : \A j \in idx : j <= i

ExpectedGet(log, address) ==
    LET i == LatestCall(log, address)
    IN  IF i = 0 \/ log[i].op = "DeleteToken"
        THEN [found |-> "no", token |-> EmptyStr, model |-> EmptyStr]
        ELSE [found |-> "yes", token |-> log[i].token, model |-> log[i].model]

ObservedGet(r) ==
    IF r.err = NoError
    THEN [found |-> "yes", token |-> r.token, model |-> r.model]
    ELSE IF r.err[1].type = "authentication" /\ r.err[1].msg = "token not found"
    THEN [found |-> "no", token |-> EmptyStr, model |-> EmptyStr]
    ELSE [found |-> "other error", token |-> EmptyStr, model |-> EmptyStr]

\* C8: after any sequence of store and delete calls on the memory manager,
\* GetToken(a) returns the (token, model) of the newest StoreToken(a, ...)
\* that no later DeleteToken(a) followed, and the not-found error otherwise.
C8_MemoryStoreIsMap ==
    mgr = "memory" =>
        \A a \in Addresses :
            ObservedGet(MemoryGetToken(tokens, a)) = ExpectedGet(oplog, a)

\* a get that succeeds on an address that was stored, deleted and stored again
C8_Witness ==
    /\ mgr = "memory"
    /\ last.op = "GetToken"
    /\ last.err = NoError
    /\ \E i, j, k \in 1..Len(oplog) :
          /\ i < j /\ j < k
          /\ oplog[i].address = last.address /\ oplog[i].op = "StoreToken"
          /\ oplog[j].address = last.address /\ oplog[j].op = "DeleteToken"
          /\ oplog[k].address = last.address /\ oplog[k].op = "StoreToken"
          /\ oplog[k].token # oplog[i].token

\* C9: on the file manager, StoreToken(addr, tok, model) followed by
\* GetToken(addr) returns exactly (tok, model), for every token string and
\* every supported model, whatever the file held before.
C9_FileRoundTrip ==
    (mgr = "file" /\ last.op = "StoreToken" /\ last.err = NoError
        /\ IsSupported(last.model)) =>
        FileGetToken(files, last.address, "ok") = GetResult(last.token, last.model, NoError)

\* the not-found error of either manager
IsTokenNotFound(err) ==
    /\ err # NoError
    /\ err[1].type = "authentication"
    /\ err[1].msg \in {"token not found", "failed to read token file"}

\* what GetToken(address) returns now, on the manager in use
GetNow(address) ==
    IF mgr = "memory" THEN MemoryGetToken(tokens, address)
    ELSE FileGetToken(files, address, "ok")

\* C10 as stated: on both managers DeleteToken returns no error whether or
\* not an entry exists, and GetToken after it fails with the not-found error.
C10_DeleteNeverFails ==
    last.op = "DeleteToken" =>
        /\ last.err = NoError
        /\ IsTokenNotFound(GetNow(last.address).err)

\* C10 (amended): DeleteToken returns no error whether or not an entry
\* exists, unless os.Remove fails for another reason than the file being
\* absent; after a DeleteToken that returned no error, GetToken fails with
\* the not-found error.
C10_DeleteIdempotent ==
    last.op = "DeleteToken" =>
        /\ (last.io \in {"none", "ok"} => last.err = NoError)
        /\ (last.err = NoError => IsTokenNotFound(GetNow(last.address).err))

\* a delete of an entry that does not exist, on the file manager
C10_Witness ==
    /\ mgr = "file"
    /\ last.op = "DeleteToken"
    /\ ~last.had
    /\ last.err = NoError
    /\ files # EmptyMap

-----------------------------------------------------------------------------
(* Claims about the client                                                 *)

\* the operations that go through makeAuthenticatedRequest
RequestOps ==
    {"makeAuthenticatedRequest", "POE.GetStatus", "POE.GetSettings", "POE.UpdatePort",
     "POE.CyclePower", "Ports.GetSettings", "Ports.UpdatePort"}

\* C1: on a client whose token is empty, makeAuthenticatedRequest and every
\* operation of the POE and port managers returns the not-authenticated
\* error and hands no request to the transport, whatever the method, the
\* path, the form and the model are.
C1_NoTokenNoRequest ==
    (client.exists /\ client.token = EmptyStr /\ last.op \in RequestOps) =>
        /\ last.err = ErrNotAuthenticated
        /\ sent = <<>>

\* an update refused on an unauthenticated client of a model that is none
C1_Witness ==
    /\ client.exists
    /\ client.token = EmptyStr
    /\ client.model = ModelUnknown
    /\ last.op = "Ports.UpdatePort"
    /\ last.err = ErrNotAuthenticated

\* C2: when GetToken succeeds in NewClient, the client returned holds the
\* token and the model GetToken returned, no request was sent and the
\* password manager was not asked.
C2_CachedTokenTrusted ==
    (last.op = "NewClient" /\ last.res.err = NoError) =>
        /\ last.err = NoError
        /\ client.exists
        /\ client.token = last.res.token
        /\ client.model = last.res.model
        /\ sent = <<>>
        /\ last.consulted = 0

\* a client with a password manager that loaded the token a Login stored
C2_Witness ==
    /\ last.op = "NewClient"
    /\ last.res.err = NoError
    /\ mgr = "file"
    /\ client.exists
    /\ client.passwordMgr
    /\ client.token = <<"b">>
    /\ client.model = ModelGS316EPP

\* the requests of `reqs` sent for one of `steps`
StepsOf(reqs, steps) == {i \in 1..Len(reqs) : reqs[i].step \in steps}

\* the probes come first, then at most one seed GET, then at most one POST
ProbeThenLogin(reqs) ==
    /\ reqs # <<>>
    /\ reqs[1].step = "probe"
    /\ \A i \in StepsOf(reqs, {"probe"}), j \in StepsOf(reqs, {"seed", "login"}) : i < j
    /\ \A i \in StepsOf(reqs, {"seed"}), j \in StepsOf(reqs, {"login"}) : i < j
    /\ Cardinality(StepsOf(reqs, {"seed"})) <= 1
    /\ Cardinality(StepsOf(reqs, {"login"})) <= 1

\* the seeds the device serves
Seeds == {resp.rand : resp \in {x \in SeedResponses : x.hasRand}}

\* the credential POSTs of `reqs` carry the digest of password and a seed
PostsDigestOf(reqs, password) ==
    \A i \in StepsOf(reqs, {"login"}) :
        /\ reqs[i].method = "POST"
        /\ Len(reqs[i].body) = 1
        /\ \E sd \in Seeds :
              QueryUnescape(reqs[i].body[1].value) = EncryptPasswordWithSeed(password, sd)

\* NewClient found no token and the password manager found a password
AutoLoginCase ==
    last.op = "NewClient" /\ last.res.err # NoError /\ last.found

C4_DetectOnly ==
    [][ (last'.op = "NewClient" /\ last'.res.err # NoError /\ ~last'.found) =>
            /\ tokens' = tokens
            /\ files' = files
            /\ ~last'.saved
            /\ last'.logins = 0
            /\ sent' # <<>>
            /\ \A i \in 1..Len(sent') : sent'[i].step = "probe" /\ sent'[i].method = "GET"
            /\ last'.err = NoError =>
                  /\ client'.exists
                  /\ IsSupported(client'.model)
                  /\ ~IsAuthenticated(client')
            /\ last'.err # NoError => client' = NoClient ]_vars

\* a client made after two probes, with a password manager that has no
\* password for the address and a token manager that holds another entry
C4_Witness ==
    /\ last.op = "NewClient"
    /\ last.res.err # NoError
    /\ ~last.found
    /\ last.consulted = 1
    /\ client.exists
    /\ client.model = ModelGS305EP
    /\ Len(sent) = 2
    /\ GetNow(<<"b">>).err = NoError

\* C5: a Login that returns an error leaves the client's token and what the
\* token manager holds as they were, also on a client that had a token.
C5_FailedLoginKeepsState ==
    [][ (last'.op = "Login" /\ last'.err # NoError) =>
            /\ client' = client
            /\ tokens' = tokens
            /\ files' = files
            /\ ~last'.saved ]_vars

\* a Login the device rejected, on a client that holds a stored token
C5_Witness ==
    /\ last.op = "Login"
    /\ last.err = ErrInvalidCredentials
    /\ Len(sent) = 2
    /\ client.exists
    /\ IsAuthenticated(client)
    /\ GetNow(client.address) = GetResult(client.token, client.model, NoError)

\* C6 as stated: after Logout the token is empty, GetToken for the client's
\* address fails, and Logout sent no request.
C6_LogoutAlwaysDeletes ==
    last.op = "Logout" =>
        /\ client.token = EmptyStr
        /\ GetNow(client.address).err # NoError
        /\ sent = <<>>

\* C6 (amended): Logout returns no error, sends no request, empties the
\* token and calls DeleteToken; GetToken for the address fails afterwards
\* unless DeleteToken failed.  A client without a token gets the
\* not-authenticated error from every request, and only a Login that
\* returns no error gives it a token.
C6_Logout ==
    /\ [](last.op = "Logout" =>
            /\ last.err = NoError
            /\ client.token = EmptyStr
            /\ sent = <<>>
            /\ last.saved
            /\ last.saveErr = NoError => IsTokenNotFound(GetNow(client.address).err))
    /\ []((client.exists /\ client.token = EmptyStr /\ last.op \in RequestOps) =>
            (last.err = ErrNotAuthenticated /\ sent = <<>>))
    /\ [][ (client.exists /\ client.token = EmptyStr /\ client'.exists /\ client'.token # EmptyStr) =>
              (last'.op = "Login" /\ last'.err = NoError) ]_vars

\* a Logout after which the token file is still there
C6_Witness ==
    /\ last.op = "Logout"
    /\ mgr = "file"
    /\ last.saveErr # NoError
    /\ client.token = EmptyStr
    /\ GetNow(client.address).err = NoError

\* the value of the parameter `key` in a list of encoded pairs
HasParam(pairs, key) == \E i \in 1..Len(pairs) : pairs[i].key = key
ParamValue(pairs, key) ==
    QueryUnescape(pairs[CHOOSE i \in 1..Len(pairs) : pairs[i].key = key].value)

\* the list of pairs carries every field of the form
CarriesForm(pairs, data) ==
    \A k \in DOMAIN data.kv : HasParam(pairs, k) /\ ParamValue(pairs, k) = data.kv[k]

\* C7: a request sent for an authenticated operation carries the client's
\* token as its model's family requires.  GS30x: the header Cookie is
\* "SID=<token>" and no Gambit parameter is sent.  GS316: the parameter
\* Gambit=<token> is in the query string of a GET and in the form body of a
\* POST, and no Cookie header is sent.  A GET has no body, and the fields of
\* a non-empty form are in its query string.
C7_RequestCarriesToken ==
    \A i \in 1..Len(sent) :
        sent[i].step = "api" =>
            /\ IsModel30x(client.model) =>
                  /\ sent[i].cookie = <<"S", "I", "D", "=">> \o client.token
                  /\ ~HasParam(sent[i].query, "Gambit")
                  /\ ~HasParam(sent[i].body, "Gambit")
            /\ IsModel316(client.model) =>
                  /\ sent[i].cookie = EmptyStr
                  /\ sent[i].method = "GET" =>
                        /\ HasParam(sent[i].query, "Gambit")
                        /\ ParamValue(sent[i].query, "Gambit") = client.token
                  /\ sent[i].method = "POST" =>
                        /\ sent[i].hasBody
                        /\ HasParam(sent[i].body, "Gambit")
                        /\ ParamValue(sent[i].body, "Gambit") = client.token
                        /\ sent[i].query = <<>>
            /\ sent[i].method = "GET" =>
                  /\ ~sent[i].hasBody
                  /\ sent[i].body = <<>>
                  /\ last.op = "makeAuthenticatedRequest" => CarriesForm(sent[i].query, last.data)
            /\ (sent[i].method = "POST" /\ last.op = "makeAuthenticatedRequest" /\ ~last.data.isNil) =>
                  CarriesForm(sent[i].body, last.data)

\* a GET with a form on a GS316 client whose token has characters a URL escapes
C7_Witness ==
    /\ client.exists
    /\ client.model = ModelGS316EPP
    /\ client.token = <<"a", ":", " ">>
    /\ last.op = "makeAuthenticatedRequest"
    /\ last.method = "GET"
    /\ DOMAIN last.data.kv = {"port"}
    /\ Len(sent) = 1
    /\ Len(sent[1].query) = 2
    /\ sent[1].query[1].value # client.token

-----------------------------------------------------------------------------
(* Claims about concurrent use                                             *)

\* the token a request carries, for a client of the given model
RequestToken(req, model) ==
    IF GetAuthenticationType(model) = AuthTypeSession
    THEN SubSeq(req.cookie, 5, Len(req.cookie))
    ELSE IF req.method = "GET" THEN ParamValue(req.query, "Gambit")
    ELSE ParamValue(req.body, "Gambit")

\* C11 as stated: while Login or Logout runs beside a request on the same
\* client, the request goroutine never faults, and every request sent
\* carries a non-empty token that has been the client's token.
C11_CredentialSerialized ==
    /\ threads.req.pc # "panic"
    /\ \A i \in 1..Len(sent) :
          sent[i].step = "api" =>
              /\ RequestToken(sent[i], client.model) # EmptyStr
              /\ RequestToken(sent[i], client.model) \in threads.creds

\* the stores that were called for the file of `address`
StoresToFileOf(address) ==
    {i \in 1..Len(oplog) : getTokenFilename(oplog[i].address) = getTokenFilename(address)}

\* C12 as stated: a GetToken that finds the file, while StoreToken calls for
\* it run or have run, returns the complete (token, model) of one of these
\* calls: never an error for an empty or cut file, never a mixture.
C12_AtomicReplace ==
    (last.op = "GetToken" /\ last.had) =>
        /\ last.err = NoError
        /\ \E i \in StoresToFileOf(last.address) :
              /\ oplog[i].token = last.res.token
              /\ oplog[i].model = last.res.model

\* C13 as stated: a call for one address never changes what GetToken returns
\* for another address, and GetToken never returns without an error what
\* was stored for another address.
C13_AddressesIndependent ==
    /\ [][ \A b \in FileAddresses :
              b # last'.address =>
                  FileGetToken(files', b, "ok") = FileGetToken(files, b, "ok") ]_vars
    /\ []((last.op = "GetToken" /\ last.err = NoError) =>
              \E i \in 1..Len(oplog) : oplog[i].address = last.address)

-----------------------------------------------------------------------------
(* Claims about errors                                                     *)

\* the Type of the first *Error of an error chain (what errors.As finds)
ErrorKind(err) ==
    LET typed == {i \in 1..Len(err) : err[i].type # "go"}
    IN  IF typed = {} THEN "go" ELSE err[Least(typed)].type

NewClientFailed == last.op = "NewClient" /\ last.err # NoError

\* the GET of "/" got no response, or its body could not be read
ProbeUnreached == ~last.env.root.ok \/ ~last.env.root.readable

\* the device answered with a page that names no model
ProbeNoModel ==
    /\ last.env.root.ok /\ last.env.root.readable
    /\ DetectFromHTML(last.env.root.text) = EmptyStr

DetectFailed == NewModelError("failed to detect switch model", NoError)

EmptyPasswordLogin == last.op = "Login" /\ last.password = EmptyStr

\* C15 as stated: a Login with the empty password for which no password is
\* found returns the authentication error "password cannot be empty" and
\* sends no request.
C15_PasswordCannotBeEmpty ==
    (EmptyPasswordLogin /\ ~last.found) =>
        /\ last.err = NewAuthError("password cannot be empty", NoError)
        /\ sent = <<>>

\* C15 (amended): a Login with the empty password on a client without a
\* password manager returns "password cannot be empty" without asking anyone;
\* with a password manager it asks it once and, if no password is found,
\* returns "no password provided and no environment variable found".  In
\* both cases nothing is sent and the client and the token manager stay as
\* they were.  If a password is found, the call does what Login with that
\* password does.
C15_EmptyPassword ==
    [][ (last'.op = "Login" /\ last'.password = EmptyStr) =>
           LET same == /\ sent' = <<>>
                       /\ client' = client
                       /\ tokens' = tokens
                       /\ files' = files
                       /\ ~last'.saved
               r == Login(client, St, last'.env.pm.password, last'.env)
           IN  IF ~client.passwordMgr
               THEN /\ last'.err = NewAuthError("password cannot be empty", NoError)
                    /\ last'.consulted = 0
                    /\ same
               ELSE IF ~last'.env.pm.found
               THEN /\ last'.err = NewAuthError("no password provided and no environment variable found",
                                                NoError)
                    /\ last'.consulted = 1
                    /\ same
               ELSE /\ last'.consulted = 1
                    /\ last'.env.pm.password # EmptyStr
                    /\ last'.err = r.err
                    /\ client' = r.client
                    /\ tokens' = r.st.tokens
                    /\ files' = r.st.files
                    /\ sent' = r.reqs ]_vars

\* a Login with the empty password that found a password and was accepted
C15_Witness ==
    /\ EmptyPasswordLogin
    /\ last.found
    /\ last.consulted = 1
    /\ last.err = NoError
    /\ IsAuthenticated(client)
    /\ Len(sent) = 2

\* the token the device of the model issues to a client of the given model
IssuedToken(model) ==
    IF GetAuthenticationType(model) = AuthTypeSession
    THEN extractSessionToken(RespSid)
    ELSE ExtractGambitToken(RespGambit.text)

\* C16: a Login whose StoreToken failed returns no error and leaves the
\* token the device issued in the client; a request of an authenticated
\* client carries the client's token, whatever the token manager holds.
C16_LoginSurvivesStoreFailure ==
    /\ (last.op = "Login" /\ last.saved /\ last.saveErr # NoError) =>
          /\ last.err = NoError
          /\ IsAuthenticated(client)
          /\ client.token = IssuedToken(client.model)
    /\ (last.op = "POE.GetStatus" /\ client.exists /\ IsAuthenticated(client)
          /\ (IsModel30x(client.model) \/ IsModel316(client.model))) =>
          /\ Len(sent) = 1
          /\ sent[1].step = "api"
          /\ RequestToken(sent[1], client.model) = client.token

\* a request sent with the token of a Login whose token file was not written
C16_Witness ==
    /\ mgr = "file"
    /\ last.op = "POE.GetStatus"
    /\ client.exists
    /\ Len(sent) = 1
    /\ RequestToken(sent[1], client.model) = IssuedToken(client.model)
    /\ FileGetToken(files, client.address, "ok").err # NoError

-----------------------------------------------------------------------------
(* Claims about models                                                     *)

\* C17 as stated: no client has a model outside the supported set, whether
\* the model came from a page or from the token manager, and the session
\* variant is selected for models of the GS30x family only.
C17_ModelNeverCoerced ==
    client.exists =>
        /\ IsSupported(client.model)
        /\ GetAuthenticationType(client.model) = AuthTypeSession => IsModel30x(client.model)

\* C18 as stated: the five GS30x names are of family 30x and not of family
\* 316, the two GS316 names the reverse, every other string is of neither
\* family and not supported; the variant is gambit exactly for family 316
\* and session exactly for family 30x.
C18_OneFamily ==
    last.op = "Model" =>
        LET m == last.model
            r == last.res
        IN  /\ m \in {ModelGS305EP, ModelGS305EPP, ModelGS308EP, ModelGS308EPP, ModelGS30xEPx}
                  => (r.is30x /\ ~r.is316 /\ r.supported)
            /\ m \in {ModelGS316EP, ModelGS316EPP} => (r.is316 /\ ~r.is30x /\ r.supported)
            /\ m \notin SupportedModels => (~r.is30x /\ ~r.is316 /\ ~r.supported)
            /\ r.auth = AuthTypeGambit <=> r.is316
            /\ r.auth = AuthTypeSession <=> r.is30x

-----------------------------------------------------------------------------
(* Claims about login                                                      *)

\* what the login variant of the model extracts from the answer to the
\* credential POST
ExtractedToken(model, postResp) ==
    IF ~postResp.ok THEN EmptyStr
    ELSE IF GetAuthenticationType(model) = AuthTypeGambit
    THEN IF postResp.readable THEN ExtractGambitToken(postResp.text) ELSE EmptyStr
    ELSE extractSessionToken(postResp)

\* C19: after a Login that returned no error the client's token is not
\* empty and IsAuthenticated is true, in both variants; a Login whose POST
\* was answered with nothing the variant extracts a token from returns an
\* error.
C19_SuccessHasToken ==
    last.op = "Login" =>
        /\ last.err = NoError => (client.token # EmptyStr /\ IsAuthenticated(client))
        /\ ExtractedToken(client.model, last.env.post) = EmptyStr => last.err # NoError

\* a gambit login that succeeded
C19_Witness ==
    /\ last.op = "Login"
    /\ last.err = NoError
    /\ IsModel316(client.model)
    /\ client.token = ExtractGambitToken(last.env.post.text)
    /\ client.token # EmptyStr

\* C20 as stated: a Login of a family-B client whose POST is answered with
\* a body that embeds a token as a hidden field or a script assignment
\* named gambit, in any letter case, returns no error and leaves exactly
\* that token in the client; every request of the authenticated client then
\* carries Gambit=<the client's token> in its data.
C20_EmbeddedTokenLogin ==
    /\ (last.op = "Login" /\ IsModel316(client.model)) =>
          /\ last.err = NoError
          /\ client.token = EmbeddedToken(last.env.post.text)
    /\ (last.op = "makeAuthenticatedRequest" /\ IsModel316(client.model)
          /\ IsAuthenticated(client)) =>
          /\ Len(sent) = 1
          /\ RequestToken(sent[1], client.model) = client.token

-----------------------------------------------------------------------------
(* Claims about reading token files                                        *)

\* a directory with one file, the token file of the address
OneFile(address, content) == MapSet(EmptyMap, getTokenFilename(address), content)

\* what GetToken reports for a file that is missing, is empty, or holds
\* text without a separator
MissingFileError   == FileGetToken(EmptyMap, <<"a">>, "ok").err
EmptyFileError     == FileGetToken(OneFile(<<"a">>, EmptyStr), <<"a">>, "ok").err
MalformedFileError == FileGetToken(OneFile(<<"a">>, ModelGS305EP), <<"a">>, "ok").err

\* the last operation was a GetToken of the file manager whose read went well
FileRead == mgr = "file" /\ last.op = "GetToken" /\ last.io = "ok"

\* the file GetToken read
ReadContent == files[getTokenFilename(last.address)]

\* C21: the file manager's GetToken reports three errors, no two of them
\* equal, for a missing file, an empty file and a non-empty file without
\* ':'; each of the three is returned in its case and in no other, so the
\* error tells the case.
C21_ReadErrorsDistinct ==
    /\ MissingFileError # NoError /\ EmptyFileError # NoError /\ MalformedFileError # NoError
    /\ MissingFileError # EmptyFileError
    /\ MissingFileError # MalformedFileError
    /\ EmptyFileError # MalformedFileError
    /\ FileRead =>
          /\ last.err = MissingFileError <=> ~last.had
          /\ last.err = EmptyFileError <=> (last.had /\ ReadContent = EmptyStr)
          /\ last.err = MalformedFileError <=>
                (last.had /\ ReadContent # EmptyStr /\ ~Contains(ReadContent, <<":">>))

\* a GetToken of an empty file after the file had held a token
C21_Witness ==
    /\ FileRead
    /\ last.had
    /\ ReadContent = EmptyStr
    /\ last.err = EmptyFileError

\* the text of a token file before its first ':', without the white space
\* around it
ModelSegment(content) == TrimSpace(SubSeq(content, 1, Index(content, ":")))

\* C22: when the model segment of a token file (the text before the first
\* ':', white space around it dropped) is not the name of a supported model,
\* the empty segment included, the file manager's GetToken returns an error
\* of kind model, an empty token and an empty model.
C22_UnknownModelRejected ==
    (FileRead /\ last.had /\ Contains(ReadContent, <<":">>)
        /\ ~IsSupported(ModelSegment(ReadContent))) =>
        /\ last.err # NoError
        /\ last.err[1].type = "model"
        /\ last.res.token = EmptyStr
        /\ last.res.model = EmptyStr

\* a GetToken of a file that holds only ":"
C22_Witness ==
    /\ FileRead
    /\ last.had
    /\ ReadContent = <<":">>
    /\ last.err # NoError
    /\ last.err[1].type = "model"

\* the text between the first ':' of a token file and the next one, or the
\* end of the file, without the white space around it
TokenSegment(content) ==
    LET rest == SubSeq(content, Index(content, ":") + 2, Len(content))
    IN  TrimSpace(IF Index(rest, ":") = -1 THEN rest ELSE SubSeq(rest, 1, Index(rest, ":")))

\* C23 as stated: GetToken of a file <model>:<token>:<extra>... with a
\* supported model returns no error, the model, and the token segment
\* alone.
C23_ExtraSegmentsIgnored ==
    (FileRead /\ last.had /\ Contains(ReadContent, <<":">>)
        /\ IsSupported(ModelSegment(ReadContent))) =>
        /\ last.err = NoError
        /\ last.res.model = ModelSegment(ReadContent)
        /\ last.res.token = TokenSegment(ReadContent)

-----------------------------------------------------------------------------
(* Claims about model detection                                            *)

SpecificModels ==
    {ModelGS305EP, ModelGS305EPP, ModelGS308EP, ModelGS308EPP, ModelGS316EP, ModelGS316EPP}

\* the specific model names a fragment contains
NamesIn(html) == {m \in SpecificModels : Contains(html, m)}

\* the fragment has a redirect-to-login marker
HasMarker(html) == Contains(html, RedirectToLogin) \/ Contains(html, RedirectMarker)

-----------------------------------------------------------------------------
(* Claims about the password digest                                        *)

\* the interleave of p and s as the claim describes it
Interleaved(p, s, r) ==
    LET n == IF Len(p) < Len(s) THEN Len(p) ELSE Len(s)
    IN  /\ Len(r) = Len(p) + Len(s)
        /\ \A i \in 0..(n - 1) : r[2 * i + 1] = p[i + 1] /\ r[2 * i + 2] = s[i + 1]
        /\ SubSeq(r, 2 * n + 1, Len(r)) = SubSeq(p, n + 1, Len(p)) \o SubSeq(s, n + 1, Len(s))

\* C25 as stated: for every password and seed the library's specialMerge is
\* their interleave followed by the tail of the longer one, and the command
\* line program's specialMerge returns the same string.
C25_InterleaveAgrees ==
    last.op = "specialMerge" =>
        /\ Interleaved(last.res.password, last.res.seedValue, last.res.lib)
        /\ ~last.res.cli.panic
        /\ last.res.cli.str = last.res.lib

-----------------------------------------------------------------------------
(* Claims about updates                                                    *)

\* the names of the optional fields of an update that are set
FieldsSet(update) ==
    {f \in DOMAIN update \ {"PortID"} : update[f].set}

\* the keys of a request body other than the port and the token
FieldsSent(req) ==
    {req.body[i].key : i \in 1..Len(req.body)} \ {"port", "Gambit"}

\* C26 as stated: an UpdatePort of the POE or the port manager on an
\* authenticated client of a supported family, called with an update in
\* which no optional field is set, returns an error of kind operation and
\* sends no request without an optional field; every request sent carries
\* as many optional fields as its update has set.
C26_EmptyUpdateRejected ==
    (last.op \in {"POE.UpdatePort", "Ports.UpdatePort"} /\ IsAuthenticated(client)
        /\ (IsModel30x(client.model) \/ IsModel316(client.model))) =>
        /\ (\E i \in 1..Len(last.updates) : FieldsSet(last.updates[i]) = {}) =>
              /\ last.err # NoError
              /\ last.err[1].type = "operation"
              /\ \A j \in 1..Len(sent) : FieldsSent(sent[j]) # {}
        /\ \A j \in 1..Len(sent) :
              Cardinality(FieldsSent(sent[j])) = Cardinality(FieldsSet(last.updates[j]))

-----------------------------------------------------------------------------
(* Claims about the switch-test program                                    *)

\* C27 as stated: in dry-run mode the switch-test program writes no update
\* request to the switch at any point of its run, the restore at exit
\* included.
C27_DryRunSendsNoUpdate ==
    threads.dryRun => \A j \in 1..Len(sent) : sent[j].method # "POST"

\* the request is an update of the port that carries the field
UpdateOf(req, portID, field) ==
    /\ req.method = "POST"
    /\ HasParam(req.body, field)
    /\ ParamValue(req.body, "port") = Itoa(portID)

\* C28 as stated: when the signal came after the initial state was
\* captured, the process exits with code 5 and by then the POE settings
\* and the port settings of every port have been written back to the
\* switch.
C28_InterruptRestores ==
    (threads.pc = "exited" /\ threads.sigCaptured) =>
        /\ threads.exit = 5
        /\ \A portID \in 1..threads.ports :
              /\ \E j \in 1..Len(sent) : UpdateOf(sent[j], portID, "mode")
              /\ \E j \in 1..Len(sent) : UpdateOf(sent[j], portID, "name")

-----------------------------------------------------------------------------
(* Claims about the steps of a login                                       *)

\* the last operation ran an authentication protocol: Login was entered
\* with a password at hand
LoginAttempted ==
    /\ last.op \in {"Login", "NewClient"}
    /\ last.logins = 1
    /\ last.password # EmptyStr \/ last.found

IsLoginStep(req) == req.step \in {"seed", "login"}

\* the requests of the authentication protocol among those sent
LoginSteps == SelectSeq(sent, IsLoginStep)

\* the login page was received and read
SeedPageRead == last.env.seed.ok /\ last.env.seed.readable

\* the login page carried the seed element
SeedObtained == getSeedValue(EmptyStr, last.env.seed).err = NoError

SeedNotFoundError ==
    NewAuthError("failed to get seed value",
                 NewAuthError("seed value not found in login page", NoError))

\* C29: a login attempt sends one seed GET and after it at most one
\* credential POST, and nothing else; the POST is sent only when the seed
\* was obtained; on a login page without the seed element Login returns
\* the seed-not-found authentication error after the GET alone.
C29_LoginSteps ==
    LoginAttempted =>
        /\ Len(LoginSteps) \in {1, 2}
        /\ LoginSteps[1].step = "seed" /\ LoginSteps[1].method = "GET"
        /\ Len(LoginSteps) = 2 =>
              /\ LoginSteps[2].step = "login" /\ LoginSteps[2].method = "POST"
              /\ SeedObtained
        /\ (SeedPageRead /\ ~SeedObtained /\ last.op = "Login") =>
              /\ Len(LoginSteps) = 1
              /\ last.err = SeedNotFoundError

\* a Login met a login page without the seed element and stopped after
\* the GET
C29_Witness ==
    /\ LoginAttempted /\ last.op = "Login"
    /\ SeedPageRead /\ ~SeedObtained
    /\ Len(sent) = 1 /\ sent[1].method = "GET"
    /\ last.err = SeedNotFoundError

\* a Login obtained the seed and its one POST was refused
C29_WitnessRejected ==
    /\ LoginAttempted /\ last.op = "Login"
    /\ SeedObtained
    /\ Len(sent) = 2 /\ sent[2].method = "POST"
    /\ last.err # NoError

-----------------------------------------------------------------------------
(* Claims about the probes of model detection                              *)

\* the last operation was a NewClient that found no cached token and so
\* detected the model
DetectionRan == last.op = "NewClient" /\ ~last.had

IsProbe(req) == req.step = "probe"

\* the requests of model detection among those sent
Probes == SelectSeq(sent, IsProbe)

\* what a page yields: the model DetectFromHTML finds in it, nothing when
\* the page could not be fetched or read
Yields(resp) == IF resp.ok /\ resp.readable THEN DetectFromHTML(resp.text) ELSE EmptyStr

\* the model name is one of a specific supported model
IsSpecific(m) == m # EmptyStr /\ m # ModelGS30xEPx /\ IsSupported(m)

\* NewClient did not fail in model detection
DetectionSucceeded ==
    last.err = NoError \/ last.err[1] # NewModelError("failed to detect switch model", NoError)[1]

\* C30: model detection asks for the root page, and for the login page
\* once more exactly when the root page yields the generic GS30xEPx; it
\* then adopts the specific model of the login page, and keeps GS30xEPx and
\* succeeds when the login page cannot be had or yields nothing more
\* specific; after a root page with a specific model or with none there is
\* no second probe.
C30_DetectionEscalatesOnce ==
    DetectionRan =>
        /\ Len(Probes) \in {1, 2}
        /\ Probes[1].method = "GET" /\ Probes[1].path = "/"
        /\ Yields(last.env.root) # ModelGS30xEPx => Len(Probes) = 1
        /\ Yields(last.env.root) = ModelGS30xEPx =>
              /\ Len(Probes) = 2
              /\ Probes[2].method = "GET" /\ Probes[2].path = "/login.cgi"
              /\ DetectionSucceeded
              /\ client.exists =>
                    client.model = IF IsSpecific(Yields(last.env.page))
                                   THEN Yields(last.env.page) ELSE ModelGS30xEPx

\* the root page yielded GS30xEPx, the login page could not be fetched,
\* and the client was made with the model GS30xEPx
C30_Witness ==
    /\ DetectionRan /\ client.exists
    /\ Yields(last.env.root) = ModelGS30xEPx
    /\ ~last.env.page.ok
    /\ Len(Probes) = 2
    /\ client.model = ModelGS30xEPx

\* the root page yielded GS30xEPx and the model of the login page was
\* adopted
C30_WitnessAdopted ==
    /\ DetectionRan /\ client.exists
    /\ Yields(last.env.root) = ModelGS30xEPx
    /\ Len(Probes) = 2
    /\ IsSpecific(client.model)

-----------------------------------------------------------------------------
(* Claims about the errors of a login                                      *)

\* an HTTP call of the last Login got no response: the seed GET, or the
\* credential POST that followed a seed
SeedCallFailed == ~last.env.seed.ok
PostCallFailed == SeedObtained /\ ~last.env.post.ok

\* C31 as stated: a Login whose seed GET or credential POST meets a
\* transport failure returns after that call with an error of kind network.
C31_TransportFailureIsNetwork ==
    (LoginAttempted /\ last.op = "Login" /\ (SeedCallFailed \/ PostCallFailed)) =>
        /\ ErrorKind(last.err) = "network"
        /\ Len(sent) = IF SeedCallFailed THEN 1 ELSE 2

\* the client logs in with the session variant
SessionVariant == GetAuthenticationType(client.model) = AuthTypeSession

\* what Login has of the body of the login response: nothing when it
\* could not be read
LoginBody == IF last.env.post.readable THEN last.env.post.text ELSE EmptyStr

\* the login response was received and carries no token: no SID cookie
\* with a value for the session variant, no Gambit token in the body for
\* the gambit variant
NoTokenCarried ==
    /\ LoginAttempted /\ last.op = "Login"
    /\ SeedObtained /\ last.env.post.ok
    /\ IF SessionVariant
       THEN extractSessionToken(last.env.post) = EmptyStr
       ELSE ExtractGambitToken(LoginBody) = EmptyStr

\* the error that carries the message the device reported
DeviceReportedError ==
    IF SessionVariant
    THEN NewAuthError("login failed: <message>", NoError)
    ELSE NewAuthError("gambit login failed: <message>", NoError)

\* C32 as stated: a login response without a token makes Login fail with
\* the authentication error that carries the device's message when the body
\* has one, and with ErrInvalidCredentials otherwise, in both variants.
C32_NoTokenAsStated ==
    NoTokenCarried =>
        last.err = IF ExtractErrorMessage(LoginBody) # EmptyStr
                   THEN DeviceReportedError ELSE ErrInvalidCredentials

\* C32 (amended): the same for every login response whose body was read;
\* when the body cannot be read the session variant returns
\* ErrInvalidCredentials and the gambit variant the network error "failed
\* to read gambit login response".
C32_NoTokenErrors ==
    NoTokenCarried =>
        last.err = IF ~SessionVariant /\ ~last.env.post.readable
                   THEN NewNetworkError("failed to read gambit login response", ReadFailed)
                   ELSE IF ExtractErrorMessage(LoginBody) # EmptyStr
                   THEN DeviceReportedError ELSE ErrInvalidCredentials

\* a gambit login was answered with a body that reports an error
C32_Witness ==
    /\ NoTokenCarried /\ ~SessionVariant
    /\ ExtractErrorMessage(LoginBody) # EmptyStr
    /\ last.err = DeviceReportedError

-----------------------------------------------------------------------------
(* Claims about an expired session                                         *)

\* the device answered an authenticated request with its login page
LoginPageAnswered ==
    /\ last.op = "makeAuthenticatedRequest"
    /\ sent # <<>>
    /\ last.answer \in LoginPages

\* C34 as stated: when the device answers an authenticated request with
\* its login page, the call fails with an authentication error and the
\* client is no longer authenticated.
C34_ExpiryDetected ==
    LoginPageAnswered =>
        /\ ErrorKind(last.err) = "authentication"
        /\ ~IsAuthenticated(client)

-----------------------------------------------------------------------------
(* Claims about the endpoints of a login                                   *)

\* the keys of a form body
FieldsOf(req) == {req.body[i].key : i \in 1..Len(req.body)}

\* the requests are those of the session variant: GET /login.cgi, then
\* POST /login.cgi with the one field password
FamilyASteps(reqs) ==
    /\ reqs[1].method = "GET" /\ reqs[1].path = "/login.cgi"
    /\ Len(reqs) >= 2 =>
          /\ Len(reqs) = 2
          /\ reqs[2].method = "POST" /\ reqs[2].path = "/login.cgi"
          /\ FieldsOf(reqs[2]) = {"password"}

\* the requests are those of the gambit variant: GET /wmi/login, then
\* POST /redirect.html with the one field LoginPassword
FamilyBSteps(reqs) ==
    /\ reqs[1].method = "GET" /\ reqs[1].path = "/wmi/login"
    /\ Len(reqs) >= 2 =>
          /\ Len(reqs) = 2
          /\ reqs[2].method = "POST" /\ reqs[2].path = "/redirect.html"
          /\ FieldsOf(reqs[2]) = {"LoginPassword"}

\* C33 as stated: the requests of a login are those of one variant, never
\* a mixture of the two; the library's Login uses the variant of the
\* client's model family, and on success its token is the value of the SID
\* cookie for family A and the Gambit token of the body for family B.
C33_VariantByFamily ==
    (last.op \in {"Login", "login"} /\ LoginSteps # <<>>) =>
        /\ FamilyASteps(LoginSteps) \/ FamilyBSteps(LoginSteps)
        /\ last.op = "Login" =>
              /\ IsModel30x(client.model) => FamilyASteps(LoginSteps)
              /\ IsModel316(client.model) => FamilyBSteps(LoginSteps)
              /\ PostsDigestOf(LoginSteps,
                               IF last.password = EmptyStr THEN ConfigFound(<<"q", "r">>).password
                               ELSE last.password)
              /\ (last.err = NoError /\ IsModel30x(client.model)) =>
                    client.token = extractSessionToken(last.env.post)
              /\ (last.err = NoError /\ IsModel316(client.model)) =>
                    client.token = ExtractGambitToken(last.env.post.text)

-----------------------------------------------------------------------------
(* Claims about the command line program                                   *)

\* the body refers to a login entry point of either family
RefersToLogin(body) ==
    \/ Contains(body, LoginCgi)
    \/ Contains(body, WmiLogin)
    \/ Contains(body, RedirectHtml)

\* C37 as stated: checkIsLoginRequired answers true exactly for a body of
\* fewer than 10 characters and for a body that holds /login.cgi, /wmi/login
\* or /redirect.html.
C37_LoginRequiredBothFamilies ==
    last.op = "checkIsLoginRequired" =>
        (threads.required <=> (Len(threads.body) < 10 \/ RefersToLogin(threads.body)))

\* the login command received a response to its POST, and the response has
\* no session cookie
NoSessionCookie ==
    /\ last.op = "login"
    /\ Len(sent) = 2
    /\ last.env.post.ok
    /\ ~HasPrefix(last.env.post.cookie, <<"S", "I", "D", "=">>)
    /\ ~HasPrefix(last.env.post.cookie, <<"g", "a", "m", "b", "i", "t", "C", "o", "o", "k", "i", "e", "=">>)

\* C38 as stated: a login whose response has no session cookie returns an
\* error and hands nothing to storeToken, whatever the status code.
C38_NoCookieNoToken ==
    NoSessionCookie => (last.err # NoError /\ threads.wrote = {})

-----------------------------------------------------------------------------
(* Claims about the client's credential and the stored one                 *)

\* the last operation logged in and the token manager stored the token
LoggedInAndStored ==
    /\ last.op \in {"Login", "NewClient"}
    /\ last.logins = 1
    /\ last.err = NoError
    /\ last.saved /\ last.saveErr = NoError

\* the last operation was a Logout whose DeleteToken did not fail
LoggedOutAndDeleted == last.op = "Logout" /\ last.saved /\ last.saveErr = NoError

-----------------------------------------------------------------------------
(* Claims about what an operation leaves alone                             *)

\* C36 as stated: the model of a client never changes; its token changes
\* only by a Login that returns no error and by a Logout, which empties it;
\* a request and a failed Login change neither the client nor what the token
\* manager holds; and makeAuthenticatedRequest leaves the form of its caller
\* as it was.
C36_FrameOfOperations ==
    /\ [][ (client.exists /\ client'.exists) => client'.model = client.model ]_vars
    /\ [][ (client.exists /\ client'.exists /\ client'.token # client.token) =>
              \/ last'.op = "Login" /\ last'.err = NoError
              \/ last'.op = "Logout" /\ client'.token = EmptyStr ]_vars
    /\ [][ (last'.op \in RequestOps \/ (last'.op = "Login" /\ last'.err # NoError)) =>
              (client' = client /\ tokens' = tokens /\ files' = files) ]_vars
    /\ [](last.op = "makeAuthenticatedRequest" => last.dataAfter = last.data)

====
